---- MODULE Spec2Model ----
(***************************************************************************)
(* Model of the device bridge of rn-bluetooth-classic-printer              *)
(* (RnBluetoothClassicPrinterModule, Kotlin), of the base64 transport     *)
(* encoding of EscPos.ts, of the JS wrapper (index.ts) and of the          *)
(* discovery side of the state facade (useBluetoothPrinter).               *)
(*                                                                         *)
(* Scheduling modelled: the bodies of AsyncFunction run one at a time on   *)
(* the module queue; connectDevice blocks there inside socket.connect(),   *)
(* so it is split at that call (pc = "connecting"). The synchronous        *)
(* Functions (stopScanning, getConnectedDevice), the main-looper handler   *)
(* callback posted by startScanning, the broadcast receiver and OnDestroy  *)
(* run on other threads and interleave with a blocked connect. Each        *)
(* handler body is otherwise one atomic step. JS runs on one thread: a     *)
(* facade or wrapper call is one step, the AsyncFunction call it           *)
(* dispatches runs later on the module queue, and an event sent by the     *)
(* receiver is delivered to the subscribed listeners in a later step.      *)
(* The Bluetooth permissions are taken as granted.                         *)
(***************************************************************************)
EXTENDS Integers, Sequences, FiniteSets, TLC

\* ---------------------------------------------------------------- bounds
MaxSockets == 2
MaxDelayed == 1
MaxReceivers == 2
MaxPayloadLen == 4
MaxListeners == 2
MaxEvents == 1
MaxCalls == 1
MaxCmdBytes == 2
MaxCommands == 3
MaxCount == 4
MaxOps == 2

\* ------------------------------------------------------ encodings
CharPad == 64
CharBad == 65

Devices == {"A", "B"}
SocketIds == 1..MaxSockets
PromiseIds == 1..MaxDelayed
ReceiverIds == 1..MaxReceivers
NoSocket == 0
NoReceiver == 0
NoPromise == 0
NoListener == 0

\* Listeners the facade creates, and the one listener of other application code.
FacadeListeners == 1..MaxListeners
AppListener == MaxListeners + 1

\* device.name ?: "Unknown"
DeviceName(d) == IF d = "A" THEN "PrinterA" ELSE "Unknown"

VARIABLES
  adapterPresent,   \* getBluetoothAdapter() # null
  adapterEnabled,   \* adapter.isEnabled
  platDiscovering,  \* adapter.isDiscovering (platform state)
  finishedPending,  \* an ACTION_DISCOVERY_FINISHED broadcast is in flight to the
                    \* receiver that was registered when discovery ended
  registered,       \* receivers registered with the context
  sockets,          \* platform sockets created by the bridge: id -> [dev, st]
  bluetoothSocket,  \* the field bluetoothSocket (NoSocket = null)
  discoveryReceiver,\* the field discoveryReceiver (NoReceiver = null)
  isDiscovering,    \* the field isDiscovering
  delayed,          \* callbacks posted on handler: promise ids, FIFO
  promises,         \* promises of startScanning calls on the delay path
  pc,               \* "idle" or "connecting" (module queue blocked in connect)
  connSock,         \* the socket the blocked connect() was called on
  destroyed,        \* OnDestroy has run
  last,             \* the most recent handler run: platform calls and result
  lastConn,         \* the most recent connectDevice (past its adapter checks) or disconnect
  input,            \* the payload the application prints (SpecPrint)
  listeners,        \* listeners subscribed to onDeviceFound on the module
  events,           \* onDeviceFound events sent and not yet delivered, FIFO
  dispatched,       \* startScanning calls of the wrapper waiting for the module queue
  scanningSubscriptionRef, \* the facade's scanningSubscriptionRef.current
  discoveredDevices,\* the facade's discoveredDevices
  isScanning,       \* the facade's isScanning
  mounted,          \* the component using the facade is mounted
  seen,             \* the device ids the facade's listeners were given since the
                    \* list's reset, each once, in the order they first came
  message,          \* the facade's message
  initPromise,      \* the promise of the mount effect, requestPermissions().then(...):
                    \* "pending", "fulfilled" or "rejected" (it has no handler)
  call,             \* the call of an EscPos function the application makes (SpecEncoder)
  returned,         \* what that call returned or threw
  connectedDevice,  \* the facade's connectedDevice: {} (null) or one device
  isLoading,        \* the facade's isLoading
  isEnabled,        \* the facade's isEnabled: "null", "true" or "false"
  ops               \* the calls of the facade's async operations that await
                    \* something, in the order they were last dispatched

platformVars == <<adapterPresent, adapterEnabled, platDiscovering, finishedPending,
                  registered, sockets>>
bridgeVars == <<bluetoothSocket, discoveryReceiver, isDiscovering, delayed, promises,
                pc, connSock, destroyed>>
jsVars == <<listeners, scanningSubscriptionRef, discoveredDevices, isScanning, mounted,
            seen, message, initPromise, call, returned, connectedDevice, isLoading,
            isEnabled>>
vars == <<adapterPresent, adapterEnabled, platDiscovering, finishedPending, registered,
          sockets, bluetoothSocket, discoveryReceiver, isDiscovering, delayed, promises,
          pc, connSock, destroyed, last, lastConn, input, listeners, events, dispatched,
          scanningSubscriptionRef, discoveredDevices, isScanning, mounted, seen, message,
          initPromise, call, returned, connectedDevice, isLoading, isEnabled, ops>>

\* ------------------------------------------------------------- base64
\* A base64 text is a sequence of characters: 0..63 are the digits of the
\* alphabet (A-Z a-z 0-9 + /), CharPad is '=', CharBad any other character.
Digits == {48, 63}
Chars == Digits \cup {CharPad, CharBad}

RECURSIVE SeqsUpTo(_, _)
SeqsUpTo(S, n) ==
  IF n = 0 THEN {<<>>}
  ELSE LET shorter == SeqsUpTo(S, n - 1)
       IN shorter \cup {Append(s, x) : s \in {t \in shorter : Len(t) = n - 1}, x \in S}

\* btoa(String.fromCharCode(...bytes)): three bytes make four digits, the
\* last group is padded with '='.
toBase64(bytes) ==
  LET n == Len(bytes)
      B(i) == IF i <= n THEN bytes[i] ELSE 0
  IN [j \in 1..(4 * ((n + 2) \div 3)) |->
        LET g == (j - 1) \div 4
            k == (j - 1) % 4
            b1 == B(3 * g + 1)
            b2 == B(3 * g + 2)
            b3 == B(3 * g + 3)
        IN CASE k = 0 -> b1 \div 4
             [] k = 1 -> (b1 % 4) * 16 + (b2 \div 16)
             [] k = 2 -> IF 3 * g + 2 > n THEN CharPad ELSE (b2 % 16) * 4 + (b3 \div 64)
             [] k = 3 -> IF 3 * g + 3 > n THEN CharPad ELSE b3 % 64]

\* android.util.Base64.decode(text, DEFAULT): a state machine over the
\* characters. st 0..3 = digits read in the current group, 4 = one '=' read
\* after two digits, 5 = padding complete, 6 = error. acc holds the digits of
\* the current group.
DecodeStep(s, c) ==
  IF s.st = 6 THEN s
  ELSE IF c = CharBad THEN [s EXCEPT !.st = 6]
  ELSE IF c = CharPad THEN
    IF s.st = 2 THEN [s EXCEPT !.st = 4]
    ELSE IF s.st = 3 THEN
      [st |-> 5, acc |-> <<>>,
       out |-> s.out \o <<s.acc[1] * 4 + s.acc[2] \div 16,
                          (s.acc[2] % 16) * 16 + s.acc[3] \div 4>>]
    ELSE IF s.st = 4 THEN
      [st |-> 5, acc |-> <<>>, out |-> s.out \o <<s.acc[1] * 4 + s.acc[2] \div 16>>]
    ELSE [s EXCEPT !.st = 6]
  ELSE IF s.st \in {4, 5} THEN [s EXCEPT !.st = 6]
  ELSE IF s.st = 3 THEN
    [st |-> 0, acc |-> <<>>,
     out |-> s.out \o <<s.acc[1] * 4 + s.acc[2] \div 16,
                        (s.acc[2] % 16) * 16 + s.acc[3] \div 4,
                        (s.acc[3] % 4) * 64 + c>>]
  ELSE [s EXCEPT !.st = s.st + 1, !.acc = Append(s.acc, c)]

RECURSIVE DecodeRun(_, _)
DecodeRun(s, text) ==
  IF Len(text) = 0 THEN s ELSE DecodeRun(DecodeStep(s, Head(text)), Tail(text))

\* The decoder's end of input: a lone digit or a lone '=' is an error, two or
\* three digits without padding are accepted.
DecodeFinish(s) ==
  IF s.st \in {1, 4, 6} THEN [ok |-> FALSE, bytes |-> <<>>]
  ELSE IF s.st = 2 THEN
    [ok |-> TRUE, bytes |-> s.out \o <<s.acc[1] * 4 + s.acc[2] \div 16>>]
  ELSE IF s.st = 3 THEN
    [ok |-> TRUE, bytes |-> s.out \o <<s.acc[1] * 4 + s.acc[2] \div 16,
                                       (s.acc[2] % 16) * 16 + s.acc[3] \div 4>>]
  ELSE [ok |-> TRUE, bytes |-> s.out]

Base64DecodeLenient(text) ==
  [ok |-> TRUE, bytes |-> DecodeRun([st |-> 0, acc |-> <<>>, out |-> <<>>], text).out]

Base64Decode(text) == DecodeFinish(DecodeRun([st |-> 0, acc |-> <<>>, out |-> <<>>], text))

\* ------------------------------------------------------------- inputs
\* Payloads handed to printRaw by the bridge specification: the encoding of
\* <<255>> and a text with a character outside the alphabet.
CorePayloads == {toBase64(<<255>>), <<63, CharBad>>}
AllPayloads == SeqsUpTo(Chars, MaxPayloadLen)

\* ------------------------------------------------------------- state
NoRun ==
  [op |-> "none", dev |-> "", payload |-> <<>>, empty |-> TRUE, conn |-> FALSE,
   disc |-> FALSE, log |-> <<>>, written |-> <<>>, result |-> "", found |-> {}]

NoConn == [op |-> "none", dev |-> "", result |-> "", before |-> {}]

\* No EscPos call made, nothing returned.
NoCall == [fn |-> "none", s1 |-> <<>>, s2 |-> <<>>, cmds |-> <<>>, n |-> 0, nums |-> <<>>]
NoOut == [st |-> "none", text |-> <<>>]

Init ==
  /\ adapterPresent \in BOOLEAN
  /\ adapterEnabled \in BOOLEAN
  /\ adapterPresent \/ ~adapterEnabled
  /\ platDiscovering = FALSE
  /\ finishedPending = FALSE
  /\ registered = {}
  /\ sockets = [s \in SocketIds |-> [dev |-> "", st |-> "unused"]]
  /\ bluetoothSocket = NoSocket
  /\ discoveryReceiver = NoReceiver
  /\ isDiscovering = FALSE
  /\ delayed = <<>>
  /\ promises = [p \in PromiseIds |-> "unused"]
  /\ pc = "idle"
  /\ connSock = NoSocket
  /\ destroyed = FALSE
  /\ last = NoRun
  /\ lastConn = NoConn
  /\ input = <<>>
  /\ listeners = {}
  /\ events = <<>>
  /\ dispatched = 0
  /\ scanningSubscriptionRef = NoListener
  /\ discoveredDevices = <<>>
  /\ isScanning = FALSE
  /\ mounted = TRUE
  /\ seen = <<>>
  /\ message = ""
  /\ initPromise = "pending"
  /\ call = NoCall
  /\ returned = NoOut
  /\ connectedDevice = {}
  /\ isLoading = FALSE
  /\ isEnabled = "null"
  /\ ops = <<>>

\* socket.isConnected for the socket in a slot value
IsConnected(slot, socks) == slot # NoSocket /\ socks[slot].st = "connected"

\* getConnectedDevice: null when the slot is empty or its socket is not
\* connected, else the remote device's address and name (no rssi key).
ConnectedDeviceOf(slot, socks) ==
  IF slot = NoSocket \/ ~IsConnected(slot, socks) THEN {}
  ELSE {[id |-> socks[slot].dev, name |-> DeviceName(socks[slot].dev)]}

\* The sockets the bridge has opened that are connected and not closed.
LiveSockets == {s \in SocketIds : sockets[s].st = "connected"}

\* A record of a handler run, with the state it started from.
Run(op, dev, payload, log, written, result, found) ==
  [op |-> op, dev |-> dev, payload |-> payload, empty |-> (bluetoothSocket = NoSocket),
   conn |-> IsConnected(bluetoothSocket, sockets), disc |-> platDiscovering,
   log |-> log, written |-> written, result |-> result, found |-> found]

\* The adapter checks shared by startScanning and connectDevice.
AdapterErrorSkipsEnabled == IF ~adapterPresent THEN "BLUETOOTH_NOT_AVAILABLE" ELSE ""

AdapterError ==
  IF ~adapterPresent THEN "BLUETOOTH_NOT_AVAILABLE"
  ELSE IF ~adapterEnabled THEN "BLUETOOTH_NOT_ENABLED"
  ELSE ""

FreePromises == {p \in PromiseIds : promises[p] = "unused"}
FreeSockets == {s \in SocketIds : sockets[s].st = "unused"}
QueueFree == pc = "idle" /\ ~destroyed

\* A call of an async operation of the facade that awaits something:
\* st = "permissions" (it awaits requestPermissions()), "queued" (its bridge
\* call waits for the module queue), "running" (its bridge call is blocked in
\* connect()) or "settled" (the bridge settled its promise with res and the
\* code after the await has not run yet).
Op(name, d, st) == [op |-> name, dev |-> d, st |-> st, res |-> ""]

QueuedOps == {i \in DOMAIN ops : ops[i].st = "queued"}
FirstQueued ==
  IF QueuedOps = {} THEN 0 ELSE CHOOSE i \in QueuedOps : \A j \in QueuedOps : i <= j

\* The bridge call that runs is the one the facade dispatched first, when one
\* waits for the module queue: promise.resolve/reject settles the promise the
\* facade awaits (st = "settled"), or the call blocks (st = "running").
OpsAfter(st, res) ==
  IF FirstQueued = 0 THEN ops
  ELSE [ops EXCEPT ![FirstQueued].st = st, ![FirstQueued].res = res]

\* The blocked connectDevice call settles its promise.
OpsAfterConnect(res) ==
  [i \in DOMAIN ops |->
     IF ops[i].st = "running" THEN [ops[i] EXCEPT !.st = "settled", !.res = res]
     ELSE ops[i]]

\* ------------------------------------------------------------- discovery
\* Discovery that ends (cancelDiscovery, its own end, Bluetooth switched off)
\* broadcasts ACTION_DISCOVERY_FINISHED to the receivers registered at that
\* moment; unregistering a receiver drops what is in flight to it.
FinishedSent(pending, disc, reg) == pending \/ (disc /\ reg # {})

\* startScanning line 119: the settle-delay path is taken exactly when the
\* platform is discovering.
ScanRestartsAtOnce(disc) == FALSE

ScanCancelsFirst(disc) == disc

\* startDiscovery lines 299-305: the receiver the field designates is
\* unregistered first (an exception for one that is not registered is caught).
KeepPrevious(reg, ref) == reg

UnregisterPrevious(reg, ref) == reg \ {ref}

\* startDiscovery lines 346-354: the promise resolves true exactly when
\* adapter.startDiscovery() returned true.
StartResult(started) == IF started THEN "true" ELSE "DISCOVERY_FAILED"

\* startDiscovery line 308: a new receiver object, named by the least
\* identity that no registered receiver has (the receiver just unregistered
\* is referenced no more, so its name is free again).
FreeReceivers(reg) == ReceiverIds \ reg
NewReceiver(reg) == CHOOSE r \in FreeReceivers(reg) : \A q \in FreeReceivers(reg) : r <= q

\* A promise of the delay path is settled (p = NoPromise: the promise of a
\* call that settles within its own step, recorded in last.result).
Settle(p) == IF p = NoPromise THEN promises ELSE [promises EXCEPT ![p] = "settled"]

\* startDiscovery(adapter, promise), run for promise p. regOk: registerReceiver
\* returned normally; started: the value of adapter.startDiscovery().
StartDiscovery(p, op, regOk, started) ==
  LET unreg == IF discoveryReceiver # NoReceiver THEN <<"unregisterReceiver">> ELSE <<>>
      reg0 == IF discoveryReceiver # NoReceiver
              THEN UnregisterPrevious(registered, discoveryReceiver) ELSE registered
  IN /\ FreeReceivers(reg0) # {}
     /\ discoveryReceiver' = NewReceiver(reg0)
     /\ finishedPending' = (finishedPending /\ reg0 # {})
     /\ promises' = Settle(p)
     /\ IF ~regOk
        THEN /\ registered' = reg0
             /\ UNCHANGED <<isDiscovering, platDiscovering>>
             /\ last' = Run(op, "", <<>>, unreg \o <<"registerReceiver:throws">>,
                            <<>>, "RECEIVER_REGISTRATION_FAILED", {})
        ELSE /\ registered' = reg0 \cup {NewReceiver(reg0)}
             /\ isDiscovering' = started
             /\ platDiscovering' = (platDiscovering \/ started)
             /\ last' = Run(op, "", <<>>,
                            unreg \o <<"registerReceiver",
                              IF started THEN "startDiscovery:true"
                              ELSE "startDiscovery:false">>,
                            <<>>, StartResult(started), {})

\* adapter.startDiscovery() cannot start discovery on a disabled adapter.
StartOutcomes == IF adapterEnabled THEN BOOLEAN ELSE {FALSE}

\* The startScanning call that runs is one the wrapper dispatched, when one
\* waits for the module queue.
CallTaken(n) == IF n > 0 THEN n - 1 ELSE 0

\* AsyncFunction("startScanning"), adapter missing or disabled: rejected.
StartScanningRejected ==
  /\ QueueFree
  /\ AdapterError # ""
  /\ last' = Run("startScanning", "", <<>>, <<>>, <<>>, AdapterError, {})
  /\ dispatched' = CallTaken(dispatched)
  /\ UNCHANGED <<input, ops, jsVars, events, platformVars, bridgeVars, lastConn>>

\* AsyncFunction("startScanning"), platform discovering: cancel, then post the
\* start on the handler with the settle delay; the promise stays pending.
StartScanningDelayed ==
  /\ QueueFree
  /\ AdapterError = ""
  /\ ScanCancelsFirst(platDiscovering)
  /\ \E p \in FreePromises :
       /\ p = CHOOSE q \in FreePromises : \A r \in FreePromises : q <= r
       /\ promises' = [promises EXCEPT ![p] = "pending"]
       /\ delayed' = Append(delayed, p)
  /\ platDiscovering' = FALSE
  /\ finishedPending' = FinishedSent(finishedPending, platDiscovering, registered)
  /\ last' = Run("startScanning", "", <<>>, <<"cancelDiscovery", "postDelayed">>,
                 <<>>, "pending", {})
  /\ dispatched' = CallTaken(dispatched)
  /\ UNCHANGED <<input, ops, jsVars, events,
                 adapterPresent, adapterEnabled, registered, sockets, bluetoothSocket,
                 discoveryReceiver, isDiscovering, pc, connSock, destroyed, lastConn>>

\* AsyncFunction("startScanning"), platform not discovering: start at once.
StartScanningNow ==
  /\ QueueFree
  /\ AdapterError = ""
  /\ ~ScanCancelsFirst(platDiscovering)
  /\ \E regOk \in BOOLEAN, started \in StartOutcomes :
       StartDiscovery(NoPromise, "startScanning", regOk, started)
  /\ dispatched' = CallTaken(dispatched)
  /\ UNCHANGED <<input, ops, jsVars, events, adapterPresent, adapterEnabled, sockets,
                 bluetoothSocket, delayed, pc, connSock, destroyed, lastConn>>

\* The handler callback posted by startScanning, run when the delay is over.
DelayedStart ==
  /\ ~destroyed
  /\ delayed # <<>>
  /\ \E regOk \in BOOLEAN, started \in StartOutcomes :
       StartDiscovery(Head(delayed), "delayedStart", regOk, started)
  /\ delayed' = Tail(delayed)
  /\ UNCHANGED <<input, ops, jsVars, events, dispatched, adapterPresent, adapterEnabled, sockets,
                 bluetoothSocket, pc, connSock, destroyed, lastConn>>

\* stopScanning line 134: cancelDiscovery is called when the platform
\* discovers.
StopCancelsAlways(disc) == TRUE

StopCancels(disc) == disc

\* stopScanning: its return value and its platform calls.
StopResult == IF adapterPresent THEN "true" ELSE "false"
StopLog ==
  IF adapterPresent /\ StopCancels(platDiscovering) THEN <<"cancelDiscovery">> ELSE <<>>

\* stopScanning: what the call does to the platform and to the bridge.
StopScanningEffect ==
  IF ~adapterPresent
  THEN UNCHANGED <<platDiscovering, finishedPending, isDiscovering>>
  ELSE /\ platDiscovering' = FALSE
       /\ finishedPending' = FinishedSent(finishedPending,
                                          StopCancels(platDiscovering) /\ platDiscovering,
                                          registered)
       /\ isDiscovering' = FALSE

\* stopScanning releasing the connection slot
SlotReleasedOnStop(slot) == NoSocket

\* stopScanning lines 131-139: bluetoothSocket is not assigned
SlotAfterStop(slot) == slot

\* Function("stopScanning")
StopScanning ==
  /\ ~destroyed
  /\ StopScanningEffect
  /\ bluetoothSocket' = SlotAfterStop(bluetoothSocket)
  /\ last' = Run("stopScanning", "", <<>>, StopLog, <<>>, StopResult, {})
  /\ UNCHANGED <<input, ops, jsVars, events, dispatched,
                 adapterPresent, adapterEnabled, registered, sockets,
                 discoveryReceiver, delayed, promises, pc, connSock, destroyed, lastConn>>

\* onReceive line 327: isDiscovering = false
FlagKeptAfterFinished(flag) == flag

FlagAfterFinished(flag) == FALSE

\* discoveryReceiver.onReceive(ACTION_DISCOVERY_FINISHED)
ReceiveFinished ==
  /\ finishedPending
  /\ registered # {}
  /\ finishedPending' = FALSE
  /\ isDiscovering' = FlagAfterFinished(isDiscovering)
  /\ last' = Run("onReceive", "", <<>>, <<"ACTION_DISCOVERY_FINISHED">>, <<>>, "", {})
  /\ UNCHANGED <<input, ops, jsVars, events, dispatched,
                 adapterPresent, adapterEnabled, platDiscovering, registered, sockets,
                 bluetoothSocket, discoveryReceiver, delayed, promises, pc, connSock,
                 destroyed, lastConn>>

\* sendEvent("onDeviceFound", deviceMap): the event travels to the listeners
\* subscribed in JS; without a listener nothing observes it.
EventSent(queue, subs, e) == IF subs = {} THEN queue ELSE Append(queue, e)

\* discoveryReceiver.onReceive(ACTION_FOUND): one onDeviceFound event with
\* id, name and rssi.
ReceiveFound(d, rssi) ==
  /\ platDiscovering
  /\ registered # {}
  /\ listeners # {} => Len(events) < MaxEvents
  /\ last' = Run("onReceive", d, <<>>, <<"ACTION_FOUND", "sendEvent">>, <<>>, "",
                 {[id |-> d, name |-> DeviceName(d), rssi |-> rssi]})
  /\ events' = EventSent(events, listeners, [id |-> d, name |-> DeviceName(d), rssi |-> rssi])
  /\ UNCHANGED <<input, ops, jsVars, dispatched, platformVars, bridgeVars, lastConn>>

\* The platform ends discovery on its own and broadcasts that it finished.
PlatformDiscoveryEnds ==
  /\ platDiscovering
  /\ platDiscovering' = FALSE
  /\ finishedPending' = FinishedSent(finishedPending, platDiscovering, registered)
  /\ UNCHANGED <<input, ops, jsVars, events, dispatched,
                 adapterPresent, adapterEnabled, registered, sockets, bridgeVars,
                 last, lastConn>>

\* The user switches Bluetooth off or on; switching it off ends discovery.
ToggleBluetooth ==
  /\ adapterPresent
  /\ adapterEnabled' = ~adapterEnabled
  /\ platDiscovering' = FALSE
  /\ finishedPending' = FinishedSent(finishedPending, platDiscovering, registered)
  /\ UNCHANGED <<input, ops, jsVars, events, dispatched,
                 adapterPresent, registered, sockets, bridgeVars, last, lastConn>>

\* ------------------------------------------------------------- connection
\* connectDevice line 188: discovery is cancelled when the platform discovers.
ConnectNeverCancels(disc) == FALSE

ConnectCancels(disc) == disc

\* connectDevice line 195: the new socket is assigned to the field; the socket
\* the field held is not closed.
SlotNotAssigned(old, new) == old

SlotAfterCreate(old, new) == new

\* disconnect line 210, bluetoothSocket?.close(): nothing is closed, and
\* nothing can throw, when the field is null.
CloseOutcomesUnguarded(slot) == {"ok", "throws"}

CloseOutcomes(slot) == IF slot = NoSocket THEN {"ok"} ELSE {"ok", "throws"}

\* disconnect line 211: reached only when close() returned.
SlotAfterClose(slot) == NoSocket

\* disconnect clearing the field whatever close() did
SlotClearedOnFailedClose(slot) == NoSocket

\* disconnect lines 214-217: the catch block rejects and assigns nothing.
SlotAfterFailedClose(slot) == slot

\* printRaw line 245: the guard before any decode or write.
NotConnectedNullOnly(slot, socks) == slot = NoSocket

NotConnected(slot, socks) == slot = NoSocket \/ ~IsConnected(slot, socks)

\* printRaw lines 257-263: the catch blocks reject and leave the field alone.
SlotClearedOnPrintFailure(slot) == NoSocket

SlotAfterPrintFailure(slot) == slot

\* The platform socket after close(): closed when it returned, and closed or
\* as it was when it threw.
Closed(socks, s, st) == [socks EXCEPT ![s].st = st]

\* Socket objects that are not connected and that neither the field nor a
\* blocked connect() references are garbage: their identity is free again.
\* A connected socket stays, referenced or not.
Collect(socks, slot, blocked) ==
  [s \in SocketIds |->
     IF socks[s].st \in {"created", "closed"} /\ s \notin {slot, blocked}
     THEN [dev |-> "", st |-> "unused"] ELSE socks[s]]

\* AsyncFunction("connectDevice"), adapter missing or disabled: rejected.
ConnectRejected(d) ==
  /\ QueueFree
  /\ AdapterError # ""
  /\ last' = Run("connectDevice", d, <<>>, <<>>, <<>>, AdapterError, {})
  /\ ops' = OpsAfter("settled", AdapterError)
  /\ UNCHANGED <<input, jsVars, events, dispatched, platformVars, bridgeVars, lastConn>>

\* AsyncFunction("connectDevice") up to the blocking socket.connect():
\* cancel discovery, create the socket, assign it to the field.
ConnectBegin(d) ==
  /\ QueueFree
  /\ AdapterError = ""
  /\ LET cancel == ConnectCancels(platDiscovering)
         pre == IF cancel THEN <<"cancelDiscovery">> ELSE <<>>
         before == ConnectedDeviceOf(bluetoothSocket, sockets)
     IN /\ platDiscovering' = IF cancel THEN FALSE ELSE platDiscovering
        /\ finishedPending' = FinishedSent(finishedPending, cancel /\ platDiscovering,
                                            registered)
        /\ \E createOk \in BOOLEAN :
             IF ~createOk
             THEN /\ last' = Run("connectDevice", d, <<>>,
                                 pre \o <<"createRfcommSocket:throws">>, <<>>,
                                 "CONNECTION_FAILED", {})
                  /\ lastConn' = [op |-> "connectDevice", dev |-> d,
                                  result |-> "CONNECTION_FAILED", before |-> before]
                  /\ ops' = OpsAfter("settled", "CONNECTION_FAILED")
                  /\ UNCHANGED <<sockets, bluetoothSocket, pc, connSock>>
             ELSE \E s \in FreeSockets :
                  /\ s = CHOOSE q \in FreeSockets : \A r \in FreeSockets : q <= r
                  /\ bluetoothSocket' = SlotAfterCreate(bluetoothSocket, s)
                  /\ sockets' = Collect([sockets EXCEPT ![s] = [dev |-> d, st |-> "created"]],
                                        bluetoothSocket', bluetoothSocket')
                  /\ pc' = "connecting"
                  /\ connSock' = bluetoothSocket'
                  /\ last' = Run("connectDevice", d, <<>>,
                                 pre \o <<"createRfcommSocket", "connect">>, <<>>,
                                 "pending", {})
                  /\ lastConn' = [op |-> "connectDevice", dev |-> d,
                                  result |-> "pending", before |-> before]
                  /\ ops' = OpsAfter("running", "")
  /\ UNCHANGED <<input, jsVars, events, dispatched,
                 adapterPresent, adapterEnabled, registered, discoveryReceiver,
                 isDiscovering, delayed, promises, destroyed>>

\* socket.connect() returns or throws and connectDevice settles its promise.
\* connect() throws on a socket that was closed meanwhile or is connected.
ConnectEnd ==
  /\ pc = "connecting"
  /\ LET s == connSock
         canConnect == s # NoSocket /\ sockets[s].st = "created"
     IN \E ok \in (IF s = NoSocket THEN {TRUE} ELSE IF canConnect THEN BOOLEAN ELSE {FALSE}) :
          /\ sockets' = Collect(IF ok /\ s # NoSocket
                                THEN [sockets EXCEPT ![s].st = "connected"] ELSE sockets,
                                bluetoothSocket, NoSocket)
          /\ last' = Run("connectDevice.connect", lastConn.dev, <<>>,
                         <<IF ok THEN "connect:ok" ELSE "connect:throws">>, <<>>,
                         IF ok THEN "true" ELSE "CONNECTION_FAILED", {})
          /\ lastConn' = [lastConn EXCEPT
                            !.result = IF ok THEN "true" ELSE "CONNECTION_FAILED"]
          /\ ops' = OpsAfterConnect(IF ok THEN "true" ELSE "CONNECTION_FAILED")
  /\ pc' = "idle"
  /\ connSock' = NoSocket
  /\ UNCHANGED <<input, jsVars, events, dispatched,
                 adapterPresent, adapterEnabled, platDiscovering, finishedPending,
                 registered, bluetoothSocket, discoveryReceiver, isDiscovering,
                 delayed, promises, destroyed>>

\* AsyncFunction("disconnect")
Disconnect ==
  /\ QueueFree
  /\ \E out \in CloseOutcomes(bluetoothSocket), st \in {"closed", "asis"} :
       LET before == ConnectedDeviceOf(bluetoothSocket, sockets)
       IN IF out = "ok"
          THEN /\ st = "closed"
               /\ bluetoothSocket' = SlotAfterClose(bluetoothSocket)
               /\ sockets' = Collect(IF bluetoothSocket = NoSocket THEN sockets
                                     ELSE Closed(sockets, bluetoothSocket, "closed"),
                                     bluetoothSocket', connSock)
               /\ last' = Run("disconnect", "", <<>>,
                              IF bluetoothSocket = NoSocket THEN <<>> ELSE <<"close">>,
                              <<>>, "true", {})
               /\ lastConn' = [op |-> "disconnect", dev |-> "", result |-> "true",
                               before |-> before]
               /\ ops' = OpsAfter("settled", "true")
          ELSE /\ sockets' = IF bluetoothSocket = NoSocket \/ st = "asis" THEN sockets
                             ELSE Closed(sockets, bluetoothSocket, "closed")
               /\ bluetoothSocket' = SlotAfterFailedClose(bluetoothSocket)
               /\ last' = Run("disconnect", "", <<>>, <<"close:throws">>, <<>>,
                              "DISCONNECT_FAILED", {})
               /\ lastConn' = [op |-> "disconnect", dev |-> "",
                               result |-> "DISCONNECT_FAILED", before |-> before]
               /\ ops' = OpsAfter("settled", "DISCONNECT_FAILED")
  /\ UNCHANGED <<input, jsVars, events, dispatched,
                 adapterPresent, adapterEnabled, platDiscovering, finishedPending,
                 registered, discoveryReceiver, isDiscovering, delayed, promises, pc,
                 connSock, destroyed>>

\* Function("getConnectedDevice")
GetConnectedDevice ==
  /\ ~destroyed
  /\ LET found == ConnectedDeviceOf(bluetoothSocket, sockets)
     IN last' = Run("getConnectedDevice", "", <<>>, <<>>, <<>>,
                    IF found = {} THEN "null" ELSE "device", found)
  /\ UNCHANGED <<input, ops, jsVars, events, dispatched, platformVars, bridgeVars, lastConn>>

\* AsyncFunction("printRaw"). io: which transport call raises IOException.
PrintRaw(payload) ==
  /\ QueueFree
  /\ LET decoded == Base64Decode(payload)
     IN IF NotConnected(bluetoothSocket, sockets)
        THEN /\ last' = Run("printRaw", "", payload, <<>>, <<>>, "NOT_CONNECTED", {})
             /\ bluetoothSocket' = bluetoothSocket
        ELSE IF ~decoded.ok
        THEN /\ last' = Run("printRaw", "", payload, <<"decode:throws">>, <<>>,
                            "INVALID_DATA", {})
             /\ bluetoothSocket' = SlotAfterPrintFailure(bluetoothSocket)
        ELSE \E io \in {"ok", "write", "flush"} :
             /\ last' = Run("printRaw", sockets[bluetoothSocket].dev, payload,
                            CASE io = "ok" -> <<"decode", "write", "flush">>
                              [] io = "write" -> <<"decode", "write:throws">>
                              [] io = "flush" -> <<"decode", "write", "flush:throws">>,
                            IF io = "write" THEN <<>> ELSE <<decoded.bytes>>,
                            IF io = "ok" THEN "true" ELSE "PRINT_FAILED", {})
             /\ bluetoothSocket' = IF io = "ok" THEN bluetoothSocket
                                   ELSE SlotAfterPrintFailure(bluetoothSocket)
  /\ ops' = OpsAfter("settled", last'.result)
  /\ UNCHANGED <<input, jsVars, events, dispatched,
                 platformVars, discoveryReceiver, isDiscovering, delayed, promises, pc,
                 connSock, destroyed, lastConn>>

\* OnDestroy: drop the posted callbacks, unregister the receiver, close the
\* socket. An IOException from close() leaves the last assignment undone.
OnDestroy ==
  /\ ~destroyed
  /\ destroyed' = TRUE
  /\ delayed' = <<>>
  /\ registered' = IF discoveryReceiver # NoReceiver
                   THEN UnregisterPrevious(registered, discoveryReceiver) ELSE registered
  /\ discoveryReceiver' = NoReceiver
  /\ \E out \in CloseOutcomes(bluetoothSocket), st \in {"closed", "asis"} :
       /\ out = "ok" => st = "closed"
       /\ bluetoothSocket' = IF out = "ok" THEN NoSocket ELSE bluetoothSocket
       /\ sockets' = Collect(IF bluetoothSocket = NoSocket \/ st = "asis" THEN sockets
                             ELSE Closed(sockets, bluetoothSocket, "closed"),
                             bluetoothSocket', connSock)
       /\ last' = Run("OnDestroy", "", <<>>,
                      <<"removeCallbacksAndMessages">>
                      \o (IF discoveryReceiver # NoReceiver
                          THEN <<"unregisterReceiver">> ELSE <<>>)
                      \o (IF bluetoothSocket = NoSocket THEN <<>>
                          ELSE IF out = "ok" THEN <<"close">> ELSE <<"close:throws">>),
                      <<>>, out, {})
  /\ finishedPending' = (finishedPending /\ registered' # {})
  /\ UNCHANGED <<input, ops, jsVars, events, dispatched,
                 adapterPresent, adapterEnabled, platDiscovering,
                 isDiscovering, promises, pc, connSock, lastConn>>

\* AsyncFunction("connectDevice") with a string that is no Bluetooth address:
\* getRemoteDevice (line 192, outside the try) throws IllegalArgumentException
\* after discovery was cancelled; no catch of connectDevice handles it, so the
\* call fails with no error code of the bridge.
ConnectInvalidAddress ==
  /\ QueueFree
  /\ AdapterError = ""
  /\ LET cancel == ConnectCancels(platDiscovering)
     IN /\ platDiscovering' = IF cancel THEN FALSE ELSE platDiscovering
        /\ finishedPending' = FinishedSent(finishedPending, cancel /\ platDiscovering,
                                            registered)
        /\ last' = Run("connectDevice", "invalid", <<>>,
                       (IF cancel THEN <<"cancelDiscovery">> ELSE <<>>)
                       \o <<"getRemoteDevice:throws">>, <<>>,
                       "IllegalArgumentException", {})
  /\ UNCHANGED <<input, ops, jsVars, events, dispatched,
                 adapterPresent, adapterEnabled, registered, sockets, bridgeVars,
                 lastConn>>

\* ------------------------------------------------------------- status
\* requestEnableBluetooth line 83: the dialog is needed for a disabled adapter.
DialogAlways(enabled) == TRUE

DialogNeeded(enabled) == ~enabled

\* getPairedDevices line 148: the empty list without bondedDevices being read.
PairedWhenPresent == adapterPresent

PairedAvailable == adapterPresent /\ adapterEnabled

\* getPairedDevices lines 155-160: id and name of a bonded device.
PairedEntry(d) == [id |-> d, name |-> DeviceName(d)]

\* Function("isBluetoothEnabled")
IsBluetoothEnabled ==
  /\ ~destroyed
  /\ last' = Run("isBluetoothEnabled", "", <<>>, <<>>, <<>>,
                 IF adapterPresent /\ adapterEnabled THEN "true" ELSE "false", {})
  /\ UNCHANGED <<input, ops, jsVars, events, dispatched, platformVars, bridgeVars, lastConn>>

\* AsyncFunction("requestEnableBluetooth"). activity: appContext.currentActivity
\* is not null.
RequestEnableBluetooth(activity) ==
  /\ QueueFree
  /\ last' =
       IF ~adapterPresent
       THEN Run("requestEnableBluetooth", "", <<>>, <<>>, <<>>,
                "BLUETOOTH_NOT_AVAILABLE", {})
       ELSE IF ~DialogNeeded(adapterEnabled)
       THEN Run("requestEnableBluetooth", "", <<>>, <<>>, <<>>, "true", {})
       ELSE IF ~activity
       THEN Run("requestEnableBluetooth", "", <<>>, <<"currentActivity:null">>, <<>>,
                "ACTIVITY_NOT_AVAILABLE", {})
       ELSE Run("requestEnableBluetooth", "", <<>>,
                <<"currentActivity", "startActivityForResult">>, <<>>, "true", {})
  /\ ops' = OpsAfter("settled", last'.result)
  /\ UNCHANGED <<input, jsVars, events, dispatched, platformVars, bridgeVars, lastConn>>

\* AsyncFunction("getPairedDevices"). bonded: adapter.bondedDevices.
GetPairedDevices(bonded) ==
  /\ QueueFree
  /\ last' =
       IF ~PairedAvailable
       THEN Run("getPairedDevices", "", <<>>, <<>>, <<>>, "list", {})
       ELSE Run("getPairedDevices", "", <<>>, <<"bondedDevices">>, <<>>, "list",
                {PairedEntry(d) : d \in bonded})
  /\ UNCHANGED <<input, ops, jsVars, events, dispatched, platformVars, bridgeVars, lastConn>>

\* ------------------------------------------------------------- wrapper
bridgeState == <<bluetoothSocket, discoveryReceiver, delayed, promises, pc, connSock,
                 destroyed, lastConn, input, initPromise, call, returned, connectedDevice,
                 isLoading, isEnabled, ops>>

\* The least listener identity of a set.
Least(S) == CHOOSE l \in S : \A m \in S : l <= m

\* index.ts startScanning(listener) called by application code: the listener
\* is subscribed, then the module's startScanning is dispatched; its promise
\* is only logged on rejection.
AppStartScanning ==
  /\ AppListener \notin listeners
  /\ dispatched < MaxCalls
  /\ listeners' = listeners \cup {AppListener}
  /\ dispatched' = dispatched + 1
  /\ last' = Run("index.startScanning", "", <<>>, <<"addListener", "startScanning">>,
                 <<>>, "subscription", {})
  /\ UNCHANGED <<platformVars, bridgeState, isDiscovering, events, scanningSubscriptionRef,
                 discoveredDevices, isScanning, mounted, seen, message>>

\* subscription.remove() on the subscription index.ts startScanning returned:
\* the listener is unsubscribed; no module function is called.
SubscriptionRemove ==
  /\ AppListener \in listeners
  /\ listeners' = listeners \ {AppListener}
  /\ last' = Run("subscription.remove", "", <<>>, <<"remove">>, <<>>, "", {})
  /\ UNCHANGED <<platformVars, bridgeState, isDiscovering, events, dispatched,
                 scanningSubscriptionRef, discoveredDevices, isScanning, mounted, seen,
                 message>>

\* ------------------------------------------------------------- facade
\* useBluetoothPrinter, the listener of startScanning: prev.some(d => d.id === device.id)
SameEntry(a, b) == a = b

SameDevice(a, b) == a.id = b.id

\* setDiscoveredDevices(prev => ...) of the listener
ListUpdate(prev, device) ==
  IF \E i \in DOMAIN prev : SameDevice(prev[i], device) THEN prev ELSE Append(prev, device)

\* The update run once by each of n subscribed listeners of the facade.
RECURSIVE ListUpdates(_, _, _)
ListUpdates(prev, device, n) ==
  IF n = 0 THEN prev ELSE ListUpdates(ListUpdate(prev, device), device, n - 1)

\* startScanning line 175: the new subscription is stored; the subscription
\* the ref held is not removed.
RefReplaced(subs, ref) == subs

\* useBluetoothPrinter.startScanning
FacadeStartScanning ==
  /\ mounted
  /\ dispatched < MaxCalls
  /\ FacadeListeners \ listeners # {}
  /\ LET kept == RefReplaced(listeners, scanningSubscriptionRef)
         l == Least(FacadeListeners \ listeners)
     IN /\ listeners' = kept \cup {l}
        /\ scanningSubscriptionRef' = l
  /\ discoveredDevices' = <<>>
  /\ seen' = <<>>
  /\ message' = "Starting device scan..."
  /\ isScanning' = TRUE
  /\ dispatched' = dispatched + 1
  /\ last' = Run("facade.startScanning", "", <<>>, <<"addListener", "startScanning">>,
                 <<>>, "", {})
  /\ UNCHANGED <<platformVars, bridgeState, isDiscovering, events, mounted>>

\* cleanupScanningInternal: remove the stored subscription and clear the ref,
\* then stopScanning on the bridge.
CleanupScanningInternal(op) ==
  /\ listeners' = listeners \ {scanningSubscriptionRef}
  /\ scanningSubscriptionRef' = NoListener
  /\ StopScanningEffect
  /\ last' = Run(op, "", <<>>,
                 (IF scanningSubscriptionRef # NoListener THEN <<"remove">> ELSE <<>>)
                 \o <<"stopScanning">> \o StopLog, <<>>, StopResult, {})
  /\ UNCHANGED <<adapterPresent, adapterEnabled, registered, sockets, bridgeState, events,
                 dispatched, discoveredDevices, seen>>

\* useBluetoothPrinter.stopScanning
FacadeStopScanning ==
  /\ mounted
  /\ CleanupScanningInternal("facade.stopScanning")
  /\ isScanning' = FALSE
  /\ message' = "Scan stopped"
  /\ UNCHANGED mounted

\* The cleanup of the effect, run when the component unmounts.
Unmount ==
  /\ mounted
  /\ CleanupScanningInternal("unmount")
  /\ mounted' = FALSE
  /\ UNCHANGED <<isScanning, message>>

\* The names index.ts exports. The facade reaches the bridge through
\* import * as RnBluetoothClassicPrinter from "./index".
IndexExports ==
  {"default", "isBluetoothEnabled", "requestEnableBluetooth", "startScanning",
   "stopScanning", "connectDevice", "disconnect", "printRaw", "EscPos"}

\* RnBluetoothClassicPrinter.name(...) in the facade: a name index.ts does not
\* export is undefined, and calling it throws a TypeError.
CallThrows(name) == name \notin IndexExports

\* The prefixes of the messages the facade sets in its catch blocks.
FailureStatuses ==
  {"Error: ", "Failed to load paired devices: ", "Connection failed: ",
   "Disconnect failed: ", "Print failed: "}

\* What no async operation of the facade touches.
HookFrame ==
  UNCHANGED <<platformVars, bridgeVars, lastConn, input, call, returned, events,
              dispatched, listeners, scanningSubscriptionRef, discoveredDevices,
              isScanning, mounted, seen>>

\* A state update of an unmounted component is dropped.
SetState(new, old) == IF mounted THEN new ELSE old

Remove(seq, i) == [j \in 1..(Len(seq) - 1) |-> IF j < i THEN seq[j] ELSE seq[j + 1]]

\* The calls whose awaited promise is settled: the code after the await of
\* the one settled first runs first.
SettledOps == {i \in DOMAIN ops : ops[i].st = "settled"}
FirstSettled(name) ==
  IF SettledOps = {} THEN 0
  ELSE LET i == CHOOSE k \in SettledOps : \A j \in SettledOps : k <= j
       IN IF ops[i].op = name THEN i ELSE 0

\* loadPairedDevices lines 140-154, called with getPairedDevices missing from
\* index.ts: the call throws inside the try, the catch sets the message and
\* the finally sets isLoading false before the function first returns.
AfterLoad(queue) ==
  IF CallThrows("getPairedDevices")
  THEN [ops |-> queue, isLoading |-> FALSE, message |-> "Failed to load paired devices: "]
  ELSE [ops |-> Append(queue, Op("loadPairedDevices", "", "queued")), isLoading |-> TRUE,
        message |-> "Loading paired devices..."]

\* The mount effect, permissions granted: the callback of
\* requestPermissions().then(...) calls checkBluetoothStatus(), which runs to
\* its await, and loadPairedDevices(), then getConnectedDevice(). An exception
\* thrown by the callback itself rejects the promise of then(), which has no
\* handler.
MountInit ==
  /\ mounted
  /\ initPromise = "pending"
  /\ Len(ops) < MaxOps
  /\ LET after == AfterLoad(Append(ops, Op("checkBluetoothStatus", "", "permissions")))
     IN /\ ops' = after.ops
        /\ isLoading' = after.isLoading
        /\ message' = after.message
  /\ initPromise' = IF CallThrows("getConnectedDevice") THEN "rejected" ELSE "fulfilled"
  /\ last' = Run("mount", "", <<>>,
                 <<"requestPermissions">>
                 \o (IF CallThrows("getPairedDevices") THEN <<"getPairedDevices:TypeError">>
                     ELSE <<"getPairedDevices">>)
                 \o (IF CallThrows("getConnectedDevice")
                     THEN <<"getConnectedDevice:TypeError">> ELSE <<"getConnectedDevice">>),
                 <<>>, IF CallThrows("getConnectedDevice") THEN "TypeError" ELSE "", {})
  /\ UNCHANGED <<platformVars, bridgeVars, lastConn, input, call, returned, events,
                 dispatched, listeners, scanningSubscriptionRef, discoveredDevices,
                 isScanning, mounted, seen, connectedDevice, isEnabled>>

\* checkBluetoothStatus lines 88-92, up to await requestPermissions()
FacadeCheckBluetoothStatus ==
  /\ mounted
  /\ Len(ops) < MaxOps
  /\ isLoading' = TRUE
  /\ message' = ""
  /\ ops' = Append(ops, Op("checkBluetoothStatus", "", "permissions"))
  /\ last' = Run("facade.checkBluetoothStatus", "", <<>>, <<"requestPermissions">>, <<>>,
                 "pending", {})
  /\ HookFrame
  /\ UNCHANGED <<initPromise, connectedDevice, isEnabled>>

\* checkBluetoothStatus lines 99-106, after the await: isBluetoothEnabled() of
\* the bridge is read into isEnabled.
CheckStatusResume ==
  /\ \E i \in DOMAIN ops :
       /\ ops[i].op = "checkBluetoothStatus"
       /\ ops[i].st = "permissions"
       /\ ops' = Remove(ops, i)
  /\ LET enabled == adapterPresent /\ adapterEnabled
     IN /\ isEnabled' = SetState(IF enabled THEN "true" ELSE "false", isEnabled)
        /\ message' = SetState(IF enabled THEN "Bluetooth is enabled"
                               ELSE "Bluetooth is disabled", message)
        /\ last' = Run("facade.checkBluetoothStatus", "", <<>>, <<"isBluetoothEnabled">>,
                       <<>>, IF enabled THEN "true" ELSE "false", {})
  /\ isLoading' = SetState(FALSE, isLoading)
  /\ HookFrame
  /\ UNCHANGED <<initPromise, connectedDevice>>

\* requestEnableBluetooth lines 109-113, up to await requestPermissions()
FacadeRequestEnableBluetooth ==
  /\ mounted
  /\ Len(ops) < MaxOps
  /\ isLoading' = TRUE
  /\ message' = ""
  /\ ops' = Append(ops, Op("requestEnableBluetooth", "", "permissions"))
  /\ last' = Run("facade.requestEnableBluetooth", "", <<>>, <<"requestPermissions">>, <<>>,
                 "pending", {})
  /\ HookFrame
  /\ UNCHANGED <<initPromise, connectedDevice, isEnabled>>

\* requestEnableBluetooth line 120: the bridge call is dispatched and awaited.
RequestEnableDispatch ==
  /\ \E i \in DOMAIN ops :
       /\ ops[i].op = "requestEnableBluetooth"
       /\ ops[i].st = "permissions"
       /\ ops' = Append(Remove(ops, i), Op("requestEnableBluetooth", "", "queued"))
  /\ last' = Run("facade.requestEnableBluetooth", "", <<>>, <<"requestEnableBluetooth">>,
                 <<>>, "pending", {})
  /\ HookFrame
  /\ UNCHANGED <<initPromise, connectedDevice, isEnabled, isLoading, message>>

\* requestEnableBluetooth lines 121-133, after the await of the bridge call
RequestEnableResume ==
  /\ FirstSettled("requestEnableBluetooth") # 0
  /\ LET i == FirstSettled("requestEnableBluetooth")
         ok == ops[i].res = "true"
     IN /\ ops' = Remove(ops, i)
        /\ isEnabled' = SetState(IF ok THEN "true" ELSE isEnabled, isEnabled)
        /\ message' = SetState(IF ok THEN "Bluetooth enabled successfully" ELSE "Error: ",
                               message)
        /\ last' = Run("facade.requestEnableBluetooth", "", <<>>, <<>>, <<>>,
                       IF ok THEN "true" ELSE "false", {})
  /\ isLoading' = SetState(FALSE, isLoading)
  /\ HookFrame
  /\ UNCHANGED <<initPromise, connectedDevice>>

\* loadPairedDevices lines 140-154
FacadeLoadPairedDevices ==
  /\ mounted
  /\ Len(ops) < MaxOps
  /\ ops' = AfterLoad(ops).ops
  /\ isLoading' = AfterLoad(ops).isLoading
  /\ message' = AfterLoad(ops).message
  /\ last' = Run("facade.loadPairedDevices", "", <<>>,
                 IF CallThrows("getPairedDevices") THEN <<"getPairedDevices:TypeError">>
                 ELSE <<"getPairedDevices">>, <<>>,
                 IF CallThrows("getPairedDevices") THEN "list" ELSE "pending", {})
  /\ HookFrame
  /\ UNCHANGED <<initPromise, connectedDevice, isEnabled>>

\* connectDevice lines 197-201, up to the await of the bridge call
FacadeConnectDevice(d) ==
  /\ mounted
  /\ Len(ops) < MaxOps
  /\ isLoading' = TRUE
  /\ message' = "Connecting to "
  /\ ops' = Append(ops, Op("connectDevice", d, "queued"))
  /\ last' = Run("facade.connectDevice", d, <<>>, <<"connectDevice">>, <<>>, "pending", {})
  /\ HookFrame
  /\ UNCHANGED <<initPromise, connectedDevice, isEnabled>>

\* connectDevice lines 202-213, after the await
ConnectResume ==
  /\ FirstSettled("connectDevice") # 0
  /\ LET i == FirstSettled("connectDevice")
         ok == ops[i].res = "true"
         d == ops[i].dev
     IN /\ ops' = Remove(ops, i)
        /\ connectedDevice' =
             SetState(IF ok THEN {[id |-> d, name |-> DeviceName(d)]}
                      ELSE connectedDevice, connectedDevice)
        /\ message' = SetState(IF ok THEN "Connected to " ELSE "Connection failed: ",
                               message)
        /\ last' = Run("facade.connectDevice", d, <<>>, <<>>, <<>>,
                       IF ok THEN "true" ELSE "false", {})
  /\ isLoading' = SetState(FALSE, isLoading)
  /\ HookFrame
  /\ UNCHANGED <<initPromise, isEnabled>>

\* disconnect lines 216-220, up to the await of the bridge call
FacadeDisconnect ==
  /\ mounted
  /\ Len(ops) < MaxOps
  /\ isLoading' = TRUE
  /\ message' = "Disconnecting..."
  /\ ops' = Append(ops, Op("disconnect", "", "queued"))
  /\ last' = Run("facade.disconnect", "", <<>>, <<"disconnect">>, <<>>, "pending", {})
  /\ HookFrame
  /\ UNCHANGED <<initPromise, connectedDevice, isEnabled>>

\* disconnect lines 221-229, after the await
DisconnectResume ==
  /\ FirstSettled("disconnect") # 0
  /\ LET i == FirstSettled("disconnect")
         ok == ops[i].res = "true"
     IN /\ ops' = Remove(ops, i)
        /\ connectedDevice' = SetState(IF ok THEN {} ELSE connectedDevice, connectedDevice)
        /\ message' = SetState(IF ok THEN "Disconnected" ELSE "Disconnect failed: ", message)
        /\ last' = Run("facade.disconnect", "", <<>>, <<>>, <<>>,
                       IF ok THEN "true" ELSE "false", {})
  /\ isLoading' = SetState(FALSE, isLoading)
  /\ HookFrame
  /\ UNCHANGED <<initPromise, isEnabled>>

\* printRaw lines 236-244, up to the await of the bridge call: without a
\* connectedDevice of the facade nothing is sent.
FacadePrintRaw(payload) ==
  /\ mounted
  /\ Len(ops) < MaxOps
  /\ IF connectedDevice = {}
     THEN /\ message' = "Not connected to any device"
          /\ last' = Run("facade.printRaw", "", payload, <<>>, <<>>, "false", {})
          /\ UNCHANGED <<isLoading, ops>>
     ELSE /\ isLoading' = TRUE
          /\ ops' = Append(ops, Op("printRaw", "", "queued"))
          /\ last' = Run("facade.printRaw", "", payload, <<"printRaw">>, <<>>, "pending", {})
          /\ UNCHANGED message
  /\ HookFrame
  /\ UNCHANGED <<initPromise, connectedDevice, isEnabled>>

\* printRaw lines 245-252, after the await
PrintResume ==
  /\ FirstSettled("printRaw") # 0
  /\ LET i == FirstSettled("printRaw")
         ok == ops[i].res = "true"
     IN /\ ops' = Remove(ops, i)
        /\ message' = SetState(IF ok THEN "Print sent successfully" ELSE "Print failed: ",
                               message)
        /\ last' = Run("facade.printRaw", "", <<>>, <<>>, <<>>,
                       IF ok THEN "true" ELSE "false", {})
  /\ isLoading' = SetState(FALSE, isLoading)
  /\ HookFrame
  /\ UNCHANGED <<initPromise, connectedDevice, isEnabled>>

\* An onDeviceFound event reaches JS: every subscribed listener is called;
\* each listener of the facade updates the list (a state update of an
\* unmounted component is dropped).
DeliverEvent ==
  /\ events # <<>>
  /\ LET e == Head(events)
         fl == listeners \cap FacadeListeners
         toList == mounted /\ fl # {}
     IN /\ events' = Tail(events)
        /\ discoveredDevices' = IF toList THEN ListUpdates(discoveredDevices, e, Cardinality(fl))
                                ELSE discoveredDevices
        /\ seen' = IF toList /\ e.id \notin {seen[i] : i \in DOMAIN seen}
                   THEN Append(seen, e.id) ELSE seen
        /\ last' = Run(IF listeners = {} THEN "eventDropped" ELSE "onDeviceFound",
                       e.id, <<>>, <<>>, <<>>, "", {e})
  /\ UNCHANGED <<platformVars, bridgeState, isDiscovering, listeners, dispatched,
                 scanningSubscriptionRef, isScanning, mounted, message>>

\* ------------------------------------------------------------- EscPos.ts
\* A string is a sequence of code points, a command a base64 text.
LineFeedChar == 10
SpaceChar == 32
HashChar == 35
DollarChar == 36
DashChar == 45
DotChar == 46
ZeroChar == 48
EqualsChar == 61
LowerA == 97
LowerX == 120
EAcute == 233
EuroChar == 8364

\* The names EscPos.ts exports (import * as EscPos from "./EscPos").
EscPosExports ==
  {"INIT", "LF", "FF", "Align", "setAlign", "TextSize", "setTextSize", "BOLD_ON",
   "BOLD_OFF", "REVERSE_ON", "REVERSE_OFF", "UNDERLINE_ON", "UNDERLINE_DOUBLE",
   "UNDERLINE_OFF", "CutType", "cut", "combineCommands", "text", "PAPER_58MM",
   "textLeft", "textCenter", "textRight", "newLine", "horizontalLine", "printLineItem",
   "printQRCode"}

RECURSIVE Concat(_)
Concat(seqs) == IF Len(seqs) = 0 THEN <<>> ELSE Head(seqs) \o Concat(Tail(seqs))

Repeat(str, n) == [i \in 1..(n * Len(str)) |-> str[((i - 1) % Len(str)) + 1]]

Max(a, b) == IF a >= b THEN a ELSE b

\* cmd(...bytes)
cmd(bytes) == toBase64(bytes)

\* TextEncoder.encode of one code point of the basic plane
Utf8(cp) ==
  IF cp < 128 THEN <<cp>>
  ELSE IF cp < 2048 THEN <<192 + (cp \div 64), 128 + (cp % 64)>>
  ELSE <<224 + (cp \div 4096), 128 + ((cp \div 64) % 64), 128 + (cp % 64)>>

RECURSIVE encode(_)
encode(str) ==
  IF Len(str) = 0 THEN <<>>
  ELSE IF Len(str) = 1 THEN Utf8(str[1])
  ELSE LET h == Len(str) \div 2
       IN encode(SubSeq(str, 1, h)) \o encode(SubSeq(str, h + 1, Len(str)))

\* text(data)
text(data) == cmd(encode(data))

\* atob(command): the padding of a text whose length is a multiple of four is
\* dropped, then every four digits make three bytes; a text with another
\* character, or with one digit left over, throws.
atobBody(t) ==
  IF Len(t) > 0 /\ Len(t) % 4 = 0 /\ t[Len(t)] = CharPad
  THEN IF t[Len(t) - 1] = CharPad THEN SubSeq(t, 1, Len(t) - 2)
       ELSE SubSeq(t, 1, Len(t) - 1)
  ELSE t

atobThrows(t) ==
  LET d == atobBody(t)
  IN Len(d) % 4 = 1 \/ \E i \in DOMAIN d : d[i] \notin 0..63

atobBytes(d) ==
  [j \in 1..((Len(d) * 6) \div 8) |->
     LET g == 4 * ((j - 1) \div 3)
         k == (j - 1) % 3
     IN CASE k = 0 -> d[g + 1] * 4 + (d[g + 2] \div 16)
          [] k = 1 -> (d[g + 2] % 16) * 16 + (d[g + 3] \div 4)
          [] k = 2 -> (d[g + 3] % 4) * 64 + d[g + 4]]

atob(t) == atobBytes(atobBody(t))

\* combineCommands, the bytes pushed to allBytes: the texts joined as they
\* are, without decoding each
allBytesOfJoined(commands) == atob(Concat(commands))

allBytes(commands) == Concat([i \in DOMAIN commands |-> atob(commands[i])])

\* combineCommands(...commands)
combineCommands(commands) == toBase64(allBytes(commands))

combineThrows(commands) == \E i \in DOMAIN commands : atobThrows(commands[i])

\* The control commands
INIT == cmd(<<27, 64>>)
LF == cmd(<<10>>)
FF == cmd(<<12>>)
BOLD_ON == cmd(<<27, 69, 1>>)
BOLD_OFF == cmd(<<27, 69, 0>>)
REVERSE_ON == cmd(<<27, 86, 1>>)
REVERSE_OFF == cmd(<<27, 86, 0>>)
UNDERLINE_ON == cmd(<<27, 45, 1>>)
UNDERLINE_DOUBLE == cmd(<<27, 45, 2>>)
UNDERLINE_OFF == cmd(<<27, 45, 0>>)

Align == [LEFT |-> 0, CENTER |-> 1, RIGHT |-> 2]
TextSize == [NORMAL |-> 0, DOUBLE_HEIGHT |-> 1, DOUBLE_WIDTH |-> 2, DOUBLE_BOTH |-> 3]
CutType == [FULL |-> 0, PARTIAL |-> 1]

setAlign(align) == cmd(<<27, 97, align>>)

\* setTextSize with the enum value itself as the byte
sizeMapIdentity(size) == size

sizeMap(size) ==
  CASE size = TextSize.NORMAL -> 0
    [] size = TextSize.DOUBLE_HEIGHT -> 1
    [] size = TextSize.DOUBLE_WIDTH -> 16
    [] size = TextSize.DOUBLE_BOTH -> 17

setTextSize(size) == cmd(<<29, 33, sizeMap(size)>>)

cut(cutType) == cmd(<<29, 86, cutType>>)

\* The constant or function of a control command, applied to the enum member
\* named (member "" = no argument: the default of cut).
Control(fn, member) ==
  CASE fn = "INIT" -> INIT
    [] fn = "LF" -> LF
    [] fn = "FF" -> FF
    [] fn = "BOLD_ON" -> BOLD_ON
    [] fn = "BOLD_OFF" -> BOLD_OFF
    [] fn = "REVERSE_ON" -> REVERSE_ON
    [] fn = "REVERSE_OFF" -> REVERSE_OFF
    [] fn = "UNDERLINE_ON" -> UNDERLINE_ON
    [] fn = "UNDERLINE_DOUBLE" -> UNDERLINE_DOUBLE
    [] fn = "UNDERLINE_OFF" -> UNDERLINE_OFF
    [] fn = "setAlign" -> setAlign(Align[member])
    [] fn = "setTextSize" -> setTextSize(TextSize[member])
    [] fn = "cut" -> cut(IF member = "" THEN CutType.PARTIAL ELSE CutType[member])

charPerLine == 32

textLeft(str) == combineCommands(<<setAlign(Align.LEFT), text(str)>>)
\* textCenter setting the alignment back to left after the text
textCenterRestores(str) ==
  combineCommands(<<setAlign(Align.CENTER), text(str), setAlign(Align.LEFT)>>)

textCenter(str) == combineCommands(<<setAlign(Align.CENTER), text(str)>>)
textRight(str) == combineCommands(<<setAlign(Align.RIGHT), text(str)>>)

\* newLine never returning less than one line feed
newLineAtLeastOne(count) == combineCommands([i \in 1..Max(1, count) |-> LF])

\* newLine(count): count times LF pushed to lines
newLine(count) == combineCommands([i \in 1..count |-> LF])

IsWhiteSpace(c) == c \in {SpaceChar, LineFeedChar}

\* String.prototype.trimEnd left out
trimEndKeeps(str) == str

RECURSIVE trimEnd(_)
trimEnd(str) ==
  IF Len(str) > 0 /\ IsWhiteSpace(str[Len(str)]) THEN trimEnd(SubSeq(str, 1, Len(str) - 1))
  ELSE str

lineStyles(style) ==
  CASE style = "dashed" -> trimEnd(Repeat(<<DashChar, SpaceChar>>, charPerLine \div 2))
    [] style = "double" -> Repeat(<<EqualsChar>>, charPerLine)
    [] style = "hash" -> Repeat(<<HashChar>>, charPerLine)
    [] style = "normal" -> Repeat(<<DashChar>>, charPerLine)

\* horizontalLine(style = "normal")
horizontalLine(style) == text(lineStyles(style) \o <<LineFeedChar>>)

\* The decimal digits of a natural number
RECURSIVE DigitsOf(_)
DigitsOf(n) ==
  IF n < 10 THEN <<ZeroChar + n>> ELSE DigitsOf(n \div 10) \o <<ZeroChar + (n % 10)>>

\* Number.prototype.toFixed(2) of a number given in thousandths: rounded to
\* the nearest hundredth.
toFixed2(thousandths) ==
  LET h == (thousandths + 5) \div 10
  IN DigitsOf(h \div 100) \o <<DotChar, ZeroChar + ((h % 100) \div 10), ZeroChar + (h % 10)>>

totalWidth == 32

leftPart(quantity, price) == DigitsOf(quantity) \o <<SpaceChar, LowerX, SpaceChar>> \o toFixed2(price)
rightPart(total) == toFixed2(total)

spaces(quantity, price, total) ==
  Max(1, totalWidth - Len(leftPart(quantity, price)) - Len(rightPart(total)) - 2)

printLineItem(name, quantity, price, total) ==
  combineCommands(<<
    text(name \o <<LineFeedChar>>),
    text(leftPart(quantity, price) \o Repeat(<<SpaceChar>>, spaces(quantity, price, total))
         \o rightPart(total) \o <<LineFeedChar>>)>>)

\* printQRCode, the length of the store command: the number of characters of
\* the string instead of the number of its bytes
storeLenOfString(data) == Len(data) + 3

storeLen(data) == Len(encode(data)) + 3

\* printQRCode(data, size = 8)
printQRCode(data, size) ==
  LET dataBytes == encode(data)
      pL == storeLen(data) % 256
      pH == storeLen(data) \div 256
  IN combineCommands(<<
       setAlign(Align.CENTER),
       cmd(<<29, 40, 107, 4, 0, 49, 65, 50, 0>>),
       cmd(<<29, 40, 107, 3, 0, 49, 67, size>>),
       cmd(<<29, 40, 107, 3, 0, 49, 69, 48>>),
       cmd(<<29, 40, 107, pL, pH, 49, 80, 48>> \o dataBytes),
       cmd(<<29, 40, 107, 3, 0, 49, 81, 48>>)>>)

\* ------------------------------------------------------------- EscPos.ts, calls
\* Text(str) written out: the strings the calls are made with.
StrA == <<LowerA>>
StrAccent == <<EAcute, LowerA>>
StrEuroLine == <<EuroChar, LineFeedChar>>
StrLatte == <<76, 97, 116, 116, 101>>
StrCoffee == <<67, 111, 102, 102, 101, 101>>
StrPrice == <<DollarChar, 51, DotChar, 53, 48>>
StrLongName == StrCoffee \o Repeat(<<SpaceChar, LowerA>>, 14)
Strs == {<<>>, StrA, StrAccent, StrEuroLine}

ByteSamples == {0, 255}
Commands == {cmd(b) : b \in SeqsUpTo(ByteSamples, MaxCmdBytes)}

\* Quantities, and prices and totals in thousandths, whose parts are 4 to 10
\* characters long.
Quantities == {2, 12345678, 123456789, 1234567890}
Prices == {4500, 999996, 1234567891}
Totals == {9000, 12345678, 123456789, 1234567891}

\* A string of n UTF-8 bytes; from two bytes on its first character takes two.
QrLengths == {0, 1, 252, 253, 255, 256, 300}
QrData(n) == IF n < 2 THEN Repeat(<<LowerA>>, n) ELSE <<EAcute>> \o Repeat(<<LowerA>>, n - 2)
QrSizes == 1..16

\* The commands an application composes a payload of.
PayloadItems ==
  <<[k |-> "INIT", s |-> <<>>, n |-> 0],
    [k |-> "setAlign", s |-> <<>>, n |-> Align.RIGHT],
    [k |-> "textLeft", s |-> StrA, n |-> 0],
    [k |-> "textCenter", s |-> StrAccent, n |-> 0],
    [k |-> "textRight", s |-> StrEuroLine, n |-> 0],
    [k |-> "printQRCode", s |-> StrAccent, n |-> 3],
    [k |-> "text", s |-> StrA, n |-> 0]>>

ItemCommand(item) ==
  CASE item.k = "INIT" -> INIT
    [] item.k = "setAlign" -> setAlign(item.n)
    [] item.k = "textLeft" -> textLeft(item.s)
    [] item.k = "textCenter" -> textCenter(item.s)
    [] item.k = "textRight" -> textRight(item.s)
    [] item.k = "printQRCode" -> printQRCode(item.s, item.n)
    [] item.k = "text" -> text(item.s)

PayloadCommands(items) == [i \in DOMAIN items |-> ItemCommand(PayloadItems[items[i]])]

Call(fn, opt, s1, s2, cmds, nums) ==
  [fn |-> fn, opt |-> opt, s1 |-> s1, s2 |-> s2, cmds |-> cmds, nums |-> nums]

ControlNames ==
  {"INIT", "LF", "FF", "BOLD_ON", "BOLD_OFF", "REVERSE_ON", "REVERSE_OFF", "UNDERLINE_ON",
   "UNDERLINE_DOUBLE", "UNDERLINE_OFF"}

ControlCalls ==
  {Call(fn, "", <<>>, <<>>, <<>>, <<>>) : fn \in ControlNames}
  \cup {Call("setAlign", m, <<>>, <<>>, <<>>, <<>>) : m \in DOMAIN Align}
  \cup {Call("setTextSize", m, <<>>, <<>>, <<>>, <<>>) : m \in DOMAIN TextSize}
  \cup {Call("cut", m, <<>>, <<>>, <<>>, <<>>) : m \in DOMAIN CutType \cup {""}}

CombineCalls ==
  {Call("combineCommands", "", <<>>, <<>>, c, <<>>) : c \in SeqsUpTo(Commands, MaxCommands)}

PayloadCalls ==
  {Call("payload", "", <<>>, <<>>, <<>>, items) :
     items \in SeqsUpTo(DOMAIN PayloadItems, MaxCommands)}

AlignedCalls ==
  {Call(fn, "", s, <<>>, <<>>, <<>>) : fn \in {"textLeft", "textCenter", "textRight"},
                                       s \in Strs}

NewLineCalls ==
  {Call("newLine", "", <<>>, <<>>, <<>>, n) : n \in {<<>>} \cup {<<c>> : c \in 0..MaxCount}}

LineCalls ==
  {Call("horizontalLine", style, <<>>, <<>>, <<>>, <<>>) :
     style \in {"", "normal", "dashed", "double", "hash"}}

LineItemCalls ==
  {Call("printLineItem", "", name, <<>>, <<>>, <<q, p, t>>) :
     name \in {StrLatte, StrAccent}, q \in Quantities, p \in Prices, t \in Totals}

QRCalls ==
  {Call("printQRCode", "", QrData(n), <<>>, <<>>, s) :
     n \in QrLengths, s \in {<<>>} \cup {<<z>> : z \in QrSizes}}

JustifyCalls ==
  {Call("printJustify", "", l, StrPrice, <<>>, g) :
     l \in {StrCoffee, StrLongName}, g \in {<<>>, <<2>>, <<2, charPerLine>>}}

EncoderCalls ==
  ControlCalls \cup CombineCalls \cup PayloadCalls \cup AlignedCalls \cup NewLineCalls
  \cup LineCalls \cup LineItemCalls \cup QRCalls \cup JustifyCalls

Returned(t) == [st |-> "returned", text |-> t]
Thrown(e) == [st |-> e, text |-> <<>>]

\* The application calls EscPos[call.fn]; everything else stands still.
Calls(fns) ==
  /\ returned = NoOut
  /\ call.fn \in fns
  /\ UNCHANGED <<platformVars, bridgeVars, last, lastConn, input, events, dispatched,
                 listeners, scanningSubscriptionRef, discoveredDevices, isScanning,
                 mounted, seen, message, initPromise, call, connectedDevice, isLoading,
                 isEnabled, ops>>

ReadControl ==
  /\ Calls(ControlNames \cup {"setAlign", "setTextSize", "cut"})
  /\ returned' = Returned(Control(call.fn, call.opt))

CallCombineCommands ==
  /\ Calls({"combineCommands"})
  /\ returned' = IF combineThrows(call.cmds) THEN Thrown("InvalidCharacterError")
                 ELSE Returned(combineCommands(call.cmds))

\* combineCommands(...) of the commands of a payload
CallPayload ==
  /\ Calls({"payload"})
  /\ returned' = Returned(combineCommands(PayloadCommands(call.nums)))

CallTextAligned ==
  /\ Calls({"textLeft", "textCenter", "textRight"})
  /\ returned' = Returned(CASE call.fn = "textLeft" -> textLeft(call.s1)
                            [] call.fn = "textCenter" -> textCenter(call.s1)
                            [] call.fn = "textRight" -> textRight(call.s1))

CallNewLine ==
  /\ Calls({"newLine"})
  /\ returned' = Returned(newLine(IF call.nums = <<>> THEN 1 ELSE call.nums[1]))

CallHorizontalLine ==
  /\ Calls({"horizontalLine"})
  /\ returned' = Returned(horizontalLine(IF call.opt = "" THEN "normal" ELSE call.opt))

CallPrintLineItem ==
  /\ Calls({"printLineItem"})
  /\ returned' = Returned(printLineItem(call.s1, call.nums[1], call.nums[2], call.nums[3]))

CallPrintQRCode ==
  /\ Calls({"printQRCode"})
  /\ returned' = Returned(printQRCode(call.s1, IF call.nums = <<>> THEN 8 ELSE call.nums[1]))

\* A call of a name EscPos.ts does not export: EscPos[name] is undefined and
\* calling it throws a TypeError.
CallUndefined ==
  /\ returned = NoOut
  /\ call.fn \notin EscPosExports \cup {"none", "payload"}
  /\ returned' = Thrown("TypeError")
  /\ UNCHANGED <<platformVars, bridgeVars, last, lastConn, input, events, dispatched,
                 listeners, scanningSubscriptionRef, discoveredDevices, isScanning,
                 mounted, seen, message, initPromise, call, connectedDevice, isLoading,
                 isEnabled, ops>>

\* ------------------------------------------------------------- specifications
Next ==
  \/ StartScanningRejected
  \/ StartScanningDelayed
  \/ StartScanningNow
  \/ DelayedStart
  \/ StopScanning
  \/ ReceiveFinished
  \/ \E d \in Devices, rssi \in {-60} : ReceiveFound(d, rssi)
  \/ PlatformDiscoveryEnds
  \/ ToggleBluetooth
  \/ \E d \in Devices : ConnectRejected(d)
  \/ \E d \in Devices : ConnectBegin(d)
  \/ ConnectInvalidAddress
  \/ ConnectEnd
  \/ Disconnect
  \/ GetConnectedDevice
  \/ \E payload \in CorePayloads : PrintRaw(payload)
  \/ OnDestroy

Spec == Init /\ [][Next]_vars

\* printRaw of one payload, any text of up to MaxPayloadLen characters, on one
\* device with the adapter enabled.
InitPrint ==
  /\ adapterPresent = TRUE
  /\ adapterEnabled = TRUE
  /\ platDiscovering = FALSE
  /\ finishedPending = FALSE
  /\ registered = {}
  /\ sockets = [s \in SocketIds |-> [dev |-> "", st |-> "unused"]]
  /\ bluetoothSocket = NoSocket
  /\ discoveryReceiver = NoReceiver
  /\ isDiscovering = FALSE
  /\ delayed = <<>>
  /\ promises = [p \in PromiseIds |-> "unused"]
  /\ pc = "idle"
  /\ connSock = NoSocket
  /\ destroyed = FALSE
  /\ last = NoRun
  /\ lastConn = NoConn
  /\ input \in AllPayloads
  /\ listeners = {}
  /\ events = <<>>
  /\ dispatched = 0
  /\ scanningSubscriptionRef = NoListener
  /\ discoveredDevices = <<>>
  /\ isScanning = FALSE
  /\ mounted = TRUE
  /\ seen = <<>>
  /\ message = ""
  /\ initPromise = "pending"
  /\ call = NoCall
  /\ returned = NoOut
  /\ connectedDevice = {}
  /\ isLoading = FALSE
  /\ isEnabled = "null"
  /\ ops = <<>>

NextPrint ==
  \/ ConnectBegin("A")
  \/ ConnectEnd
  \/ Disconnect
  \/ PrintRaw(input)

SpecPrint == InitPrint /\ [][NextPrint]_vars

\* The status operations, with the adapter, discovery and one connection
\* changing under them.
NextStatus ==
  \/ IsBluetoothEnabled
  \/ \E activity \in BOOLEAN : RequestEnableBluetooth(activity)
  \/ \E bonded \in SUBSET Devices : GetPairedDevices(bonded)
  \/ ToggleBluetooth
  \/ StartScanningNow
  \/ StartScanningDelayed
  \/ DelayedStart
  \/ StopScanning
  \/ PlatformDiscoveryEnds
  \/ ReceiveFinished
  \/ ConnectBegin("A")
  \/ ConnectEnd
  \/ Disconnect

SpecStatus == Init /\ [][NextStatus]_vars

\* The wrapper and the facade over the discovery side of the bridge, with the
\* adapter enabled.
InitFacade == Init /\ adapterPresent /\ adapterEnabled

\* A device seen twice is seen with two signal strengths.
FoundEvents == {<<"A", -60>>, <<"A", -70>>, <<"B", -60>>}

NextFacade ==
  \/ MountInit
  \/ CheckStatusResume
  \/ FacadeStartScanning
  \/ FacadeStopScanning
  \/ Unmount
  \/ DeliverEvent
  \/ dispatched > 0 /\ StartScanningNow
  \/ dispatched > 0 /\ StartScanningDelayed
  \/ DelayedStart
  \/ \E f \in FoundEvents : ReceiveFound(f[1], f[2])
  \/ ReceiveFinished
  \/ PlatformDiscoveryEnds

SpecFacade == InitFacade /\ [][NextFacade]_vars

\* Application code using the wrapper (index.ts) directly.
NextWrapper ==
  \/ AppStartScanning
  \/ SubscriptionRemove
  \/ DeliverEvent
  \/ StopScanning
  \/ dispatched > 0 /\ StartScanningNow
  \/ dispatched > 0 /\ StartScanningDelayed
  \/ DelayedStart
  \/ \E f \in FoundEvents : ReceiveFound(f[1], f[2])
  \/ ReceiveFinished
  \/ PlatformDiscoveryEnds

SpecWrapper == InitFacade /\ [][NextWrapper]_vars

\* One call of the command encoder, any of EncoderCalls.
InitEncoder ==
  /\ adapterPresent = TRUE
  /\ adapterEnabled = TRUE
  /\ platDiscovering = FALSE
  /\ finishedPending = FALSE
  /\ registered = {}
  /\ sockets = [s \in SocketIds |-> [dev |-> "", st |-> "unused"]]
  /\ bluetoothSocket = NoSocket
  /\ discoveryReceiver = NoReceiver
  /\ isDiscovering = FALSE
  /\ delayed = <<>>
  /\ promises = [p \in PromiseIds |-> "unused"]
  /\ pc = "idle"
  /\ connSock = NoSocket
  /\ destroyed = FALSE
  /\ last = NoRun
  /\ lastConn = NoConn
  /\ input = <<>>
  /\ listeners = {}
  /\ events = <<>>
  /\ dispatched = 0
  /\ scanningSubscriptionRef = NoListener
  /\ discoveredDevices = <<>>
  /\ isScanning = FALSE
  /\ mounted = TRUE
  /\ seen = <<>>
  /\ message = ""
  /\ initPromise = "pending"
  /\ call \in EncoderCalls
  /\ returned = NoOut
  /\ connectedDevice = {}
  /\ isLoading = FALSE
  /\ isEnabled = "null"
  /\ ops = <<>>

NextEncoder ==
  \/ ReadControl
  \/ CallCombineCommands
  \/ CallPayload
  \/ CallTextAligned
  \/ CallNewLine
  \/ CallHorizontalLine
  \/ CallPrintLineItem
  \/ CallPrintQRCode
  \/ CallUndefined

SpecEncoder == InitEncoder /\ [][NextEncoder]_vars

\* The bridge with the scheduling its handler gives: a callback posted with
\* postDelayed runs once its delay is over, unless it was removed; a blocked
\* connect() returns or throws.
SpecLive == Init /\ [][Next]_vars /\ WF_vars(DelayedStart) /\ WF_vars(ConnectEnd)

\* The async operations of the facade over the bridge, with an adapter that
\* the user switches on and off. The bridge runs the calls the facade
\* dispatched, in the order of their dispatch.
InitHook == Init /\ adapterPresent

Dispatched(name, d) ==
  FirstQueued # 0 /\ ops[FirstQueued].op = name /\ ops[FirstQueued].dev = d

PrintedPayload == toBase64(<<255>>)

NextHook ==
  \/ MountInit
  \/ FacadeCheckBluetoothStatus
  \/ CheckStatusResume
  \/ FacadeRequestEnableBluetooth
  \/ RequestEnableDispatch
  \/ \E activity \in BOOLEAN :
       Dispatched("requestEnableBluetooth", "") /\ RequestEnableBluetooth(activity)
  \/ RequestEnableResume
  \/ FacadeLoadPairedDevices
  \/ \E d \in Devices : FacadeConnectDevice(d)
  \/ \E d \in Devices : Dispatched("connectDevice", d) /\ ConnectRejected(d)
  \/ \E d \in Devices : Dispatched("connectDevice", d) /\ ConnectBegin(d)
  \/ ConnectEnd
  \/ ConnectResume
  \/ FacadeDisconnect
  \/ Dispatched("disconnect", "") /\ Disconnect
  \/ DisconnectResume
  \/ FacadePrintRaw(PrintedPayload)
  \/ Dispatched("printRaw", "") /\ PrintRaw(PrintedPayload)
  \/ PrintResume
  \/ ToggleBluetooth

SpecHook == InitHook /\ [][NextHook]_vars

\* ------------------------------------------------------------- reference
\* Base64 as arithmetic, for the statements about printRaw: the digits before
\* the padding are a string of 6-bit groups, byte j is bits 8j-7..8j of it.
Range(f) == {f[i] : i \in DOMAIN f}

PadStart(t64) ==
  IF \A i \in 1..Len(t64) : t64[i] \in 0..63 THEN Len(t64) + 1
  ELSE CHOOSE i \in 1..Len(t64) :
         t64[i] \notin 0..63 /\ \A j \in 1..(i - 1) : t64[j] \in 0..63

BodyOf(t64) == SubSeq(t64, 1, PadStart(t64) - 1)
PadOf(t64) == SubSeq(t64, PadStart(t64), Len(t64))

WellFormed(t64) ==
  LET n == Len(BodyOf(t64))
      pad == PadOf(t64)
  IN /\ n % 4 # 1
     /\ \/ pad = <<>>
        \/ n % 4 = 2 /\ pad = <<CharPad, CharPad>>
        \/ n % 4 = 3 /\ pad = <<CharPad>>

BitOf(digits, b) == (digits[(b \div 6) + 1] \div (2 ^ (5 - (b % 6)))) % 2

RefBytes(t64) ==
  LET digits == BodyOf(t64)
  IN [j \in 1..((6 * Len(digits)) \div 8) |->
        BitOf(digits, 8 * (j - 1)) * 128 + BitOf(digits, 8 * (j - 1) + 1) * 64
        + BitOf(digits, 8 * (j - 1) + 2) * 32 + BitOf(digits, 8 * (j - 1) + 3) * 16
        + BitOf(digits, 8 * (j - 1) + 4) * 8 + BitOf(digits, 8 * (j - 1) + 5) * 4
        + BitOf(digits, 8 * (j - 1) + 6) * 2 + BitOf(digits, 8 * (j - 1) + 7)]

AdapterErrors == {"BLUETOOTH_NOT_AVAILABLE", "BLUETOOTH_NOT_ENABLED"}
CurrentDevice == ConnectedDeviceOf(bluetoothSocket, sockets)
DeviceRecord(d) == [id |-> d, name |-> DeviceName(d)]

\* ------------------------------------------------------------- claims
\* C1 (as stated, its particular case): after a connectDevice(B) that
\* resolved true while a connection to another device A was live, no socket
\* to A is connected and not closed (so at most one socket is live).
C1_AtMostOneLive ==
  (lastConn.op = "connectDevice" /\ lastConn.result = "true") =>
    \A r \in lastConn.before :
      r.id # lastConn.dev => \A s \in LiveSockets : sockets[s].dev # r.id

\* C2: a connectDevice call that finds the platform discovering issues
\* cancelDiscovery first: in its platform calls the cancel comes before the
\* socket is created and before connect, and discovery is off when the
\* connect attempt begins.
C2_CancelBeforeConnect ==
  (last.op = "connectDevice" /\ last.disc /\ last.result \notin AdapterErrors) =>
    /\ last.log # <<>>
    /\ last.log[1] = "cancelDiscovery"
    /\ \A i \in DOMAIN last.log :
         last.log[i] \in {"createRfcommSocket", "createRfcommSocket:throws", "connect"}
           => i > 1
    /\ ~platDiscovering

C2_Witness ==
  /\ last.op = "connectDevice"
  /\ last.disc
  /\ pc = "connecting"
  /\ "connect" \in Range(last.log)

\* C3: printRaw with an empty slot, or a slot whose socket is not connected,
\* is rejected NOT_CONNECTED without decoding, writing or flushing, and the
\* step leaves the slot and every socket as they were.
C3_NotConnectedNoWrite ==
  /\ [](last.op = "printRaw" /\ ~last.conn =>
          /\ last.result = "NOT_CONNECTED"
          /\ last.log = <<>>
          /\ last.written = <<>>)
  /\ [][(/\ last'.op = "printRaw"
          /\ ~IsConnected(bluetoothSocket, sockets)
          /\ \E payload \in CorePayloads : PrintRaw(payload))
        => UNCHANGED <<bluetoothSocket, sockets>>]_vars

C3_Witness ==
  /\ last.op = "printRaw"
  /\ ~last.empty
  /\ ~last.conn
  /\ last.result = "NOT_CONNECTED"

\* C4 (as stated): after a connectDevice(B) that failed with
\* CONNECTION_FAILED, and until the next connectDevice, disconnect or
\* teardown, the connected device is the one that was connected when the call
\* was made: A if a connection to another device A was active, none if none.
C4_FailedConnectKeepsPrior ==
  (/\ lastConn.op = "connectDevice"
   /\ lastConn.result = "CONNECTION_FAILED"
   /\ \A r \in lastConn.before : r.id # lastConn.dev
   /\ ~destroyed)
    => CurrentDevice = lastConn.before

C6_DisconnectIdempotent ==
  /\ [](last.op = "disconnect" /\ last.empty =>
          last.result = "true" /\ last.log = <<>>)
  /\ []((lastConn.op = "disconnect" /\ lastConn.result = "true") =>
          bluetoothSocket = NoSocket)
  /\ [][(last'.op = "disconnect" /\ bluetoothSocket = NoSocket /\ Disconnect)
        => UNCHANGED <<platformVars, bridgeVars>>]_vars

C6_Witness ==
  /\ last.op = "disconnect"
  /\ last.empty
  /\ last.result = "true"
  /\ lastConn.op = "disconnect"

\* C7: getConnectedDevice is the device of the last connectDevice that
\* resolved true (id and name, no rssi) until the next connectDevice,
\* disconnect or teardown; it is absent after a disconnect that resolved true
\* (and printRaw is then rejected NOT_CONNECTED) and before any connectDevice
\* or disconnect; a call returns that value and changes no state.
C7_ConnectedIdentity ==
  /\ []((lastConn.op = "connectDevice" /\ lastConn.result = "true" /\ ~destroyed) =>
          /\ CurrentDevice = {DeviceRecord(lastConn.dev)}
          /\ \A r \in CurrentDevice : DOMAIN r = {"id", "name"})
  /\ []((lastConn.op = "disconnect" /\ lastConn.result = "true") =>
          /\ CurrentDevice = {}
          /\ (last.op = "printRaw" => last.result = "NOT_CONNECTED"))
  /\ [](lastConn.op = "none" => CurrentDevice = {})
  /\ [](last.op = "getConnectedDevice" => last.found = CurrentDevice)
  /\ [][(last'.op = "getConnectedDevice" /\ GetConnectedDevice)
        => UNCHANGED <<platformVars, bridgeVars>>]_vars

C7_Witness ==
  /\ lastConn.op = "connectDevice"
  /\ lastConn.result = "true"
  /\ last.op = "getConnectedDevice"
  /\ last.found = {[id |-> "B", name |-> "Unknown"]}

\* C8 (as stated): after printRaw failed with PRINT_FAILED the slot is empty
\* and getConnectedDevice is absent.
C8_FailedWriteDestroys ==
  (last.op = "printRaw" /\ last.result = "PRINT_FAILED") =>
    bluetoothSocket = NoSocket /\ CurrentDevice = {}

\* C8 (amended): after printRaw failed with PRINT_FAILED the slot still holds
\* the connected socket it wrote to: getConnectedDevice returns that device
\* and the next printRaw is not rejected NOT_CONNECTED.
C8_FailedWriteKeepsSlot ==
  (last.op = "printRaw" /\ last.result = "PRINT_FAILED") =>
    /\ CurrentDevice = {DeviceRecord(last.dev)}
    /\ ~NotConnected(bluetoothSocket, sockets)

C8_Witness ==
  /\ last.op = "printRaw"
  /\ last.result = "PRINT_FAILED"
  /\ last.log = <<"decode", "write:throws">>

\* C9: startScanning while the platform discovers cancels and posts the start;
\* nothing is registered or started in that step and its promise stays
\* pending. A pending promise resolves true only in a delayed start after
\* which the platform discovers. With the platform not discovering the start
\* is attempted within the call.
C9_CancelThenDelayedStart ==
  /\ []((last.op = "startScanning" /\ last.disc /\ last.result \notin AdapterErrors) =>
          /\ last.log = <<"cancelDiscovery", "postDelayed">>
          /\ last.result = "pending"
          /\ ~platDiscovering)
  /\ []((last.op = "startScanning" /\ ~last.disc /\ last.result \notin AdapterErrors) =>
          /\ last.result # "pending"
          /\ "postDelayed" \notin Range(last.log)
          /\ last.log # <<>>
          /\ last.log[Len(last.log)]
               \in {"startDiscovery:true", "startDiscovery:false",
                    "registerReceiver:throws"}
          /\ (last.result = "true" <=> last.log[Len(last.log)] = "startDiscovery:true"))
  /\ [][\A p \in PromiseIds :
          (promises[p] = "pending" /\ promises'[p] = "settled" /\ last'.result = "true")
            => /\ last'.op = "delayedStart"
               /\ platDiscovering'
               /\ isDiscovering'
               /\ p \notin Range(delayed')]_vars
  /\ [][(last'.op = "startScanning" /\ StartScanningDelayed) =>
          /\ ~platDiscovering'
          /\ UNCHANGED <<registered, discoveryReceiver, isDiscovering>>
          /\ Len(delayed') = Len(delayed) + 1]_vars

C9_Witness ==
  /\ last.op = "delayedStart"
  /\ last.result = "true"
  /\ promises[1] = "settled"
  /\ platDiscovering

\* C10 (as stated): at most one receiver is registered, and the receiver the
\* field designates is the registered one.
C10_ReferenceIsRegistered ==
  /\ Cardinality(registered) <= 1
  /\ registered = IF discoveryReceiver = NoReceiver THEN {} ELSE {discoveryReceiver}

\* C10 (amended): at most one receiver is registered, and a registered
\* receiver is the one the field designates; the field may designate a
\* receiver that is not registered (after registerReceiver threw).
C10_AtMostOneRegistered ==
  /\ Cardinality(registered) <= 1
  /\ \A r \in registered : r = discoveryReceiver

C10_Witness ==
  /\ last.op \in {"startScanning", "delayedStart"}
  /\ last.log # <<>>
  /\ last.log[1] = "unregisterReceiver"
  /\ registered = {discoveryReceiver}

\* C11: stopScanning returns false and changes nothing without an adapter and
\* returns true otherwise; it calls cancelDiscovery exactly when the platform
\* discovers, and leaves the platform not discovering and the flag false; a
\* stopScanning that follows a stopScanning returns the same value, calls
\* nothing and changes nothing.
C11_StopScanning ==
  /\ [](last.op = "stopScanning" =>
          /\ last.result \in {"true", "false"}
          /\ last.log = IF last.disc /\ last.result = "true"
                        THEN <<"cancelDiscovery">> ELSE <<>>
          /\ last.result = "true" => ~platDiscovering /\ ~isDiscovering)
  /\ [][(last'.op = "stopScanning" /\ StopScanning) =>
          /\ last'.result = (IF adapterPresent THEN "true" ELSE "false")
          /\ ~adapterPresent => UNCHANGED <<platformVars, bridgeVars>>
          /\ UNCHANGED <<registered, discoveryReceiver, delayed, promises, sockets,
                         bluetoothSocket>>
          /\ last.op = "stopScanning" =>
               /\ UNCHANGED <<platformVars, bridgeVars>>
               /\ last'.result = last.result
               /\ last'.log = <<>>]_vars

C11_Witness ==
  /\ last.op = "stopScanning"
  /\ last.disc
  /\ last.result = "true"
  /\ last.log = <<"cancelDiscovery">>
  /\ finishedPending

\* C12 (as stated): while a connectDevice call is between its cancel of
\* discovery and its settling (blocked in connect), the platform does not
\* discover: the bridge, the only one to start discovery, does not start it.
C12_NoDiscoveryWhileConnecting == pc = "connecting" => ~platDiscovering

\* C13: startScanning and connectDevice called without an adapter are
\* rejected BLUETOOTH_NOT_AVAILABLE, and called with the adapter disabled
\* BLUETOOTH_NOT_ENABLED; the call makes no platform call and changes nothing
\* of the platform or the bridge.
C13_AdapterErrorsChangeNothing ==
  /\ []((last.op \in {"startScanning", "connectDevice"} /\ last.result \in AdapterErrors)
          => last.log = <<>>)
  /\ [][(/\ last'.op \in {"startScanning", "connectDevice"}
          /\ ~(adapterPresent /\ adapterEnabled)
          /\ \/ StartScanningRejected
             \/ StartScanningDelayed
             \/ StartScanningNow
             \/ ConnectInvalidAddress
             \/ \E d \in Devices : ConnectRejected(d) \/ ConnectBegin(d))
        => /\ last'.result = (IF ~adapterPresent THEN "BLUETOOTH_NOT_AVAILABLE"
                              ELSE "BLUETOOTH_NOT_ENABLED")
           /\ UNCHANGED <<platformVars, bridgeVars>>]_vars

C13_Witness ==
  /\ last.op = "connectDevice"
  /\ last.result = "BLUETOOTH_NOT_ENABLED"
  /\ bluetoothSocket # NoSocket
  /\ registered # {}

\* The error kinds of the taxonomy, by the codes the bridge rejects with.
Taxonomy ==
  {"BLUETOOTH_NOT_AVAILABLE", "BLUETOOTH_NOT_ENABLED", "ACTIVITY_NOT_AVAILABLE",
   "DISCOVERY_FAILED", "CONNECTION_FAILED", "DISCONNECT_FAILED", "NOT_CONNECTED",
   "INVALID_DATA", "PRINT_FAILED"}
BridgeOperations ==
  {"requestEnableBluetooth", "startScanning", "delayedStart", "getPairedDevices",
   "connectDevice", "connectDevice.connect", "disconnect", "printRaw"}

\* C14 (as stated): a bridge operation that does not resolve (true, a list) or
\* stay pending fails with a kind of the taxonomy, and calls no platform
\* operation twice.
C14_ErrorTaxonomy ==
  last.op \in BridgeOperations =>
    /\ last.result \in {"true", "pending", "list"} \cup Taxonomy
    /\ \A i, j \in DOMAIN last.log : last.log[i] = last.log[j] => i = j

\* C15: getPairedDevices resolves with a list: empty when the adapter is
\* missing or disabled, else one entry of id and name (no rssi) per bonded
\* device; the call changes nothing of the platform or the bridge.
C15_PairedDevices ==
  /\ [](last.op = "getPairedDevices" =>
          /\ last.result = "list"
          /\ \A r \in last.found : DOMAIN r = {"id", "name"})
  /\ [][\A bonded \in SUBSET Devices :
          (last'.op = "getPairedDevices" /\ GetPairedDevices(bonded)) =>
            /\ last'.found = IF adapterPresent /\ adapterEnabled
                             THEN {DeviceRecord(d) : d \in bonded} ELSE {}
            /\ Cardinality(last'.found) = IF adapterPresent /\ adapterEnabled
                                          THEN Cardinality(bonded) ELSE 0
            /\ UNCHANGED <<platformVars, bridgeVars>>]_vars

C15_Witness ==
  /\ last.op = "getPairedDevices"
  /\ Cardinality(last.found) = 2
  /\ bluetoothSocket # NoSocket
  /\ platDiscovering

\* C16: requestEnableBluetooth is rejected BLUETOOTH_NOT_AVAILABLE without an
\* adapter and ACTIVITY_NOT_AVAILABLE with a disabled adapter and no activity,
\* and resolves true otherwise; the enable dialog is started exactly when the
\* adapter exists, is disabled and an activity is there; the call changes
\* nothing of the platform or the bridge.
C16_RequestEnable ==
  /\ [](last.op = "requestEnableBluetooth" =>
          last.result \in {"true", "BLUETOOTH_NOT_AVAILABLE", "ACTIVITY_NOT_AVAILABLE"})
  /\ [][\A activity \in BOOLEAN :
          (last'.op = "requestEnableBluetooth" /\ RequestEnableBluetooth(activity)) =>
            /\ last'.result =
                 (IF ~adapterPresent THEN "BLUETOOTH_NOT_AVAILABLE"
                  ELSE IF ~adapterEnabled /\ ~activity THEN "ACTIVITY_NOT_AVAILABLE"
                  ELSE "true")
            /\ ("startActivityForResult" \in Range(last'.log))
                 <=> (adapterPresent /\ ~adapterEnabled /\ activity)
            /\ UNCHANGED <<platformVars, bridgeVars>>]_vars

C16_Witness ==
  /\ last.op = "requestEnableBluetooth"
  /\ last.result = "true"
  /\ "startActivityForResult" \in Range(last.log)
  /\ bluetoothSocket # NoSocket

\* The receiver has just handled ACTION_DISCOVERY_FINISHED.
FinishedHandled == last.op = "onReceive" /\ last.log = <<"ACTION_DISCOVERY_FINISHED">>

\* C17 (as stated): when the finished signal is handled the flag becomes
\* false and the platform does not discover; the handling starts nothing; and
\* from there discovery becomes active only in a startScanning call.
C17_IdleUntilNextCall ==
  /\ [](FinishedHandled => ~isDiscovering /\ ~platDiscovering)
  /\ [][ReceiveFinished => UNCHANGED <<platDiscovering, registered, discoveryReceiver,
                                       delayed, promises>>]_vars
  /\ [][(FinishedHandled /\ ~platDiscovering /\ platDiscovering')
          => last'.op = "startScanning"]_vars

\* C17 (amended): when the finished signal is handled the flag becomes false
\* and the platform does not discover; the handling starts nothing; discovery
\* becomes active only in the start of a startScanning call, made at once or
\* as the delayed start the call posted, which may run after the signal.
C17_IdleUntilNextStart ==
  /\ [](FinishedHandled => ~isDiscovering /\ ~platDiscovering)
  /\ [][ReceiveFinished => UNCHANGED <<platDiscovering, registered, discoveryReceiver,
                                       delayed, promises>>]_vars
  /\ [][(~platDiscovering /\ platDiscovering')
          => /\ last'.op \in {"startScanning", "delayedStart"}
             /\ last'.result = "true"]_vars

C17_Witness ==
  /\ FinishedHandled
  /\ delayed # <<>>
  /\ registered # {}

\* C18 (as stated): after remove() on the subscription that the wrapper's
\* startScanning(listener) returned, the listener is subscribed no more, the
\* platform does not discover and no receiver is registered.
C18_RemoveStopsScanning ==
  last.op = "subscription.remove" =>
    /\ AppListener \notin listeners
    /\ ~platDiscovering
    /\ registered = {}

\* C19: the facade's list never holds two entries of one id; its ids are the
\* ids its listeners were given since the reset, each once, in the order they
\* first came; the facade's startScanning leaves the list empty.
C19_Deduplicated ==
  /\ \A i, j \in DOMAIN discoveredDevices :
       discoveredDevices[i].id = discoveredDevices[j].id => i = j
  /\ [i \in DOMAIN discoveredDevices |-> discoveredDevices[i].id] = seen
  /\ last.op = "facade.startScanning" => discoveredDevices = <<>>

C19_Witness ==
  /\ Len(discoveredDevices) = 2
  /\ Cardinality(listeners \cap FacadeListeners) = 2
  /\ last.op = "onDeviceFound"
  /\ \E e \in last.found :
       e.id = discoveredDevices[1].id /\ e.rssi # discoveredDevices[1].rssi

\* C20 (as stated): once the cleanup of the unmount has run, stopScanning was
\* called on the bridge, the ref is cleared, and an onDeviceFound event
\* reaches no listener the facade created.
C20_UnmountReleases ==
  ~mounted =>
    /\ scanningSubscriptionRef = NoListener
    /\ last.op = "unmount" => "stopScanning" \in Range(last.log)
    /\ last.op = "onDeviceFound" => listeners \cap FacadeListeners = {}

\* ------------------------------------------------------------- C21..C30
\* The error codes a startScanning call of the bridge is rejected with.
StartFailures ==
  {"BLUETOOTH_NOT_AVAILABLE", "BLUETOOTH_NOT_ENABLED", "RECEIVER_REGISTRATION_FAILED",
   "DISCOVERY_FAILED"}

\* C21 (as stated): no rejected promise escapes the facade (the promise of its
\* mount-time initialisation is never left rejected), and when the
\* startScanning call the facade dispatched is rejected by the bridge, the
\* facade's message is one of its failure statuses.
C21_FailuresReachMessage ==
  /\ initPromise # "rejected"
  /\ (last.op \in {"startScanning", "delayedStart"} /\ last.result \in StartFailures)
       => message \in FailureStatuses

\* The call made has returned a command that carries exactly these bytes.
Carries(bytes) ==
  /\ returned.st = "returned"
  /\ WellFormed(returned.text)
  /\ RefBytes(returned.text) = bytes

\* The call of one of these functions has ended (returned or thrown).
Ended(fns) == call.fn \in fns /\ returned.st # "none"

\* C22: every control constant and every declared enum value of setAlign,
\* setTextSize and cut encodes to the tabulated bytes (1B 40, 0A, 0C,
\* 1B 61 n, 1D 21 n, 1B 45 n, 1B 56 n, 1B 2D n, 1D 56 n), cut() without an
\* argument as cut(PARTIAL).
C22_ControlBytes ==
  Ended(ControlNames \cup {"setAlign", "setTextSize", "cut"}) =>
    Carries(CASE call.fn = "INIT" -> <<27, 64>>
              [] call.fn = "LF" -> <<10>>
              [] call.fn = "FF" -> <<12>>
              [] call.fn = "setAlign" ->
                   <<27, 97, CASE call.opt = "LEFT" -> 0 [] call.opt = "CENTER" -> 1
                               [] call.opt = "RIGHT" -> 2>>
              [] call.fn = "setTextSize" ->
                   <<29, 33, CASE call.opt = "NORMAL" -> 0 [] call.opt = "DOUBLE_HEIGHT" -> 1
                               [] call.opt = "DOUBLE_WIDTH" -> 16
                               [] call.opt = "DOUBLE_BOTH" -> 17>>
              [] call.fn = "BOLD_ON" -> <<27, 69, 1>>
              [] call.fn = "BOLD_OFF" -> <<27, 69, 0>>
              [] call.fn = "REVERSE_ON" -> <<27, 86, 1>>
              [] call.fn = "REVERSE_OFF" -> <<27, 86, 0>>
              [] call.fn = "UNDERLINE_OFF" -> <<27, 45, 0>>
              [] call.fn = "UNDERLINE_ON" -> <<27, 45, 1>>
              [] call.fn = "UNDERLINE_DOUBLE" -> <<27, 45, 2>>
              [] call.fn = "cut" ->
                   <<29, 86, CASE call.opt = "FULL" -> 0 [] call.opt = "PARTIAL" -> 1
                               [] call.opt = "" -> 1>>)

C22_Witness ==
  /\ Ended({"setTextSize"})
  /\ call.opt = "DOUBLE_WIDTH"
  /\ RefBytes(returned.text) = <<29, 33, 16>>

\* C23: combineCommands of no command returns the empty sequence; of commands
\* a, b (and c) it returns the bytes of a, then of b (then of c), each byte
\* kept, in order; and combineCommands(combineCommands(a, b), c) is
\* combineCommands(a, b, c).
C23_CombineConcatenates ==
  Ended({"combineCommands"}) =>
    /\ Carries(Concat([i \in DOMAIN call.cmds |-> RefBytes(call.cmds[i])]))
    /\ Len(call.cmds) = 0 => returned.text = <<>>
    /\ Len(call.cmds) = 3 =>
         combineCommands(<<combineCommands(<<call.cmds[1], call.cmds[2]>>), call.cmds[3]>>)
           = returned.text

C23_Witness ==
  /\ Ended({"combineCommands"})
  /\ Len(call.cmds) = 3
  /\ RefBytes(call.cmds[1]) = <<255>>
  /\ RefBytes(call.cmds[2]) = <<0, 255>>
  /\ call.cmds[3] = call.cmds[1]
  /\ RefBytes(returned.text) = <<255, 0, 255, 255>>

\* C24 (as stated): horizontalLine(style) is a text of exactly 32 characters
\* and one line feed for every style: 32 '-', 32 '=', 32 '#', and for dashed
\* the pattern '- ' over the 32 columns.
C24_Line32 ==
  Ended({"horizontalLine"}) =>
    Carries((CASE call.opt \in {"", "normal"} -> [i \in 1..32 |-> 45]
               [] call.opt = "double" -> [i \in 1..32 |-> 61]
               [] call.opt = "hash" -> [i \in 1..32 |-> 35]
               [] call.opt = "dashed" -> [i \in 1..32 |-> IF i % 2 = 1 THEN 45 ELSE 32])
            \o <<10>>)

\* C24 (amended): horizontalLine(style) is 32 '-' (normal, the default), 32 '='
\* (double) or 32 '#' (hash) and one line feed; for dashed it is 31
\* characters, 16 '-' with one space between each two, and one line feed.
C24_LineWidths ==
  Ended({"horizontalLine"}) =>
    Carries((CASE call.opt \in {"", "normal"} -> [i \in 1..32 |-> 45]
               [] call.opt = "double" -> [i \in 1..32 |-> 61]
               [] call.opt = "hash" -> [i \in 1..32 |-> 35]
               [] call.opt = "dashed" -> [i \in 1..31 |-> IF i % 2 = 1 THEN 45 ELSE 32])
            \o <<10>>)

C24_Witness ==
  /\ Ended({"horizontalLine"})
  /\ call.opt = "dashed"
  /\ Len(RefBytes(returned.text)) = 32
  /\ RefBytes(returned.text)[31] = 45

\* C25 (as stated): printLineItem emits the name and a line feed, then the
\* left part "{quantity} x {price}", at least one space, the right part
\* "{total}" and a line feed, nothing cut off; the right part ends at column
\* 32 whenever the two parts and one space fit in 32 columns, and the line is
\* at most 32 wide whenever the two parts together are at most 32 characters.
C25_LineItem ==
  Ended({"printLineItem"}) =>
    LET l == leftPart(call.nums[1], call.nums[2])
        r == rightPart(call.nums[3])
    IN \E k \in 1..charPerLine :
         /\ Carries(encode(call.s1) \o <<10>> \o l \o [i \in 1..k |-> 32] \o r \o <<10>>)
         /\ Len(l) + 1 + Len(r) <= 32 => Len(l) + k + Len(r) = 32
         /\ Len(l) + Len(r) <= 32 => Len(l) + k + Len(r) <= 32

\* C26 (as stated): printJustify(left, right, gap, width = 32) returns one
\* line of exactly 32 characters: left from the first column, or a cut of
\* left with "..." after it when the two do not fit, then spaces, then right
\* up to the last column.
C26_Justify ==
  Ended({"printJustify"}) =>
    /\ returned.st = "returned"
    /\ WellFormed(returned.text)
    /\ LET bytes == RefBytes(returned.text)
           line == IF Len(bytes) > 0 /\ bytes[Len(bytes)] = 10
                   THEN SubSeq(bytes, 1, Len(bytes) - 1) ELSE bytes
       IN /\ Len(line) = 32
          /\ \E k \in 0..Len(call.s1), sp \in 0..32 :
               line = SubSeq(call.s1, 1, k)
                      \o (IF k = Len(call.s1) THEN <<>> ELSE <<46, 46, 46>>)
                      \o [i \in 1..sp |-> 32] \o call.s2

\* UTF-8 by table, for the characters the calls are made with.
RefUtf8(cp) ==
  CASE cp = 10 -> <<10>>
    [] cp = 97 -> <<97>>
    [] cp = 233 -> <<195, 169>>
    [] cp = 8364 -> <<226, 130, 172>>

RECURSIVE RefText(_)
RefText(str) ==
  IF Len(str) = 0 THEN <<>>
  ELSE IF Len(str) = 1 THEN RefUtf8(str[1])
  ELSE LET h == Len(str) \div 2
       IN RefText(SubSeq(str, 1, h)) \o RefText(SubSeq(str, h + 1, Len(str)))

\* C27: printQRCode(data, s), data of n UTF-8 bytes, emits 1B 61 01, then
\* 1D 28 6B 04 00 31 41 32 00, then 1D 28 6B 03 00 31 43 s, then
\* 1D 28 6B 03 00 31 45 30, then 1D 28 6B pL pH 31 50 30 and the n bytes of
\* data, then 1D 28 6B 03 00 31 51 30, where pL = (n + 3) mod 256 and
\* pH = (n + 3) div 256 are single bytes with pL + 256 * pH = n + 3.
C27_QRCode ==
  Ended({"printQRCode"}) =>
    LET db == RefText(call.s1)
        n == Len(db)
        s == IF call.nums = <<>> THEN 8 ELSE call.nums[1]
        bytes == RefBytes(returned.text)
    IN /\ Carries(<<27, 97, 1>>
                  \o <<29, 40, 107, 4, 0, 49, 65, 50, 0>>
                  \o <<29, 40, 107, 3, 0, 49, 67, s>>
                  \o <<29, 40, 107, 3, 0, 49, 69, 48>>
                  \o <<29, 40, 107, (n + 3) % 256, (n + 3) \div 256, 49, 80, 48>> \o db
                  \o <<29, 40, 107, 3, 0, 49, 81, 48>>)
       /\ bytes[32] \in 0..255
       /\ bytes[33] \in 0..255
       /\ bytes[32] + 256 * bytes[33] = n + 3

C27_Witness ==
  /\ Ended({"printQRCode"})
  /\ call.nums = <<16>>
  /\ Len(RefText(call.s1)) = 253
  /\ Len(call.s1) = 252
  /\ RefBytes(returned.text)[32] = 0
  /\ RefBytes(returned.text)[33] = 1

\* The printer's alignment register after it has read bytes from position i
\* on: ESC @ sets it to left, ESC a n to n, the parameters of GS ( k are
\* skipped, every other byte leaves it.
RECURSIVE AlignAfter(_, _, _)
AlignAfter(bytes, i, align) ==
  IF i > Len(bytes) THEN align
  ELSE IF bytes[i] = 27 /\ i + 1 <= Len(bytes) /\ bytes[i + 1] = 64
    THEN AlignAfter(bytes, i + 2, 0)
  ELSE IF bytes[i] = 27 /\ i + 2 <= Len(bytes) /\ bytes[i + 1] = 97
    THEN AlignAfter(bytes, i + 3, bytes[i + 2])
  ELSE IF bytes[i] = 29 /\ i + 4 <= Len(bytes) /\ bytes[i + 1] = 40 /\ bytes[i + 2] = 107
    THEN AlignAfter(bytes, i + 5 + bytes[i + 3] + 256 * bytes[i + 4], align)
  ELSE AlignAfter(bytes, i + 1, align)

\* The alignment the most recent of the items sets, a0 when none does.
SetsAlign(item) ==
  item.k \in {"INIT", "setAlign", "textLeft", "textCenter", "textRight", "printQRCode"}

AlignOf(item) ==
  CASE item.k \in {"INIT", "textLeft"} -> 0
    [] item.k \in {"textCenter", "printQRCode"} -> 1
    [] item.k = "textRight" -> 2
    [] item.k = "setAlign" -> item.n

ExpectedAlign(items, a0) ==
  LET S == {i \in DOMAIN items : SetsAlign(PayloadItems[items[i]])}
  IN IF S = {} THEN a0
     ELSE AlignOf(PayloadItems[items[CHOOSE i \in S : \A j \in S : j <= i]])

\* C28: textLeft, textCenter and textRight of str return the alignment command
\* of their side and the UTF-8 bytes of str, nothing after; and in a payload
\* composed of commands, after each command the printer's alignment register
\* is the alignment of the most recent INIT (left), setAlign, textLeft,
\* textCenter, textRight or printQRCode (center), whatever it was before the
\* payload.
C28_AlignedText ==
  /\ Ended({"textLeft", "textCenter", "textRight"}) =>
       Carries(<<27, 97, CASE call.fn = "textLeft" -> 0 [] call.fn = "textCenter" -> 1
                           [] call.fn = "textRight" -> 2>> \o RefText(call.s1))
  /\ Ended({"payload"}) =>
       /\ returned.st = "returned"
       /\ WellFormed(returned.text)
       /\ \A k \in 0..Len(call.nums) :
            LET items == SubSeq(call.nums, 1, k)
                pre == RefBytes(combineCommands(PayloadCommands(items)))
            IN /\ SubSeq(RefBytes(returned.text), 1, Len(pre)) = pre
               /\ k = Len(call.nums) => Len(pre) = Len(RefBytes(returned.text))
               /\ \A a0 \in {0, 1, 2} : AlignAfter(pre, 1, a0) = ExpectedAlign(items, a0)

C28_Witness ==
  /\ Ended({"payload"})
  /\ Len(call.nums) = 3
  /\ PayloadItems[call.nums[1]].k = "textRight"
  /\ PayloadItems[call.nums[2]].k = "text"
  /\ PayloadItems[call.nums[3]].k = "textCenter"
  /\ AlignAfter(RefBytes(returned.text), 1, 0) = 1
  /\ AlignAfter(RefBytes(combineCommands(PayloadCommands(SubSeq(call.nums, 1, 2)))), 1, 0) = 2

\* C29: newLine(count) returns exactly count bytes 0A, one when count is not
\* given, none (the empty sequence) when count = 0.
C29_NewLine ==
  Ended({"newLine"}) =>
    LET count == IF call.nums = <<>> THEN 1 ELSE call.nums[1]
    IN /\ Carries([i \in 1..count |-> 10])
       /\ count = 0 => returned.text = <<>>

C29_Witness ==
  /\ Ended({"newLine"})
  /\ call.nums = <<0>>
  /\ returned.text = <<>>

\* C30: startScanning (its delayed start included), stopScanning, the
\* discovery-finished signal and a device found leave the connection slot and
\* the sockets as they were, so a connection that was live stays live;
\* disconnect and printRaw leave the discovery flags, the posted starts and
\* the receiver registration as they were.
C30_IndependentAxes ==
  [][/\ (/\ last'.op \in {"startScanning", "delayedStart", "stopScanning", "onReceive"}
         /\ \/ StartScanningRejected
            \/ StartScanningDelayed
            \/ StartScanningNow
            \/ DelayedStart
            \/ StopScanning
            \/ ReceiveFinished
            \/ \E d \in Devices, rssi \in {-60} : ReceiveFound(d, rssi)) =>
          /\ bluetoothSocket' = bluetoothSocket
          /\ sockets' = sockets
          /\ IsConnected(bluetoothSocket', sockets') = IsConnected(bluetoothSocket, sockets)
     /\ (/\ last'.op \in {"disconnect", "printRaw"}
         /\ \/ Disconnect
            \/ \E payload \in CorePayloads : PrintRaw(payload)) =>
          /\ isDiscovering' = isDiscovering
          /\ platDiscovering' = platDiscovering
          /\ finishedPending' = finishedPending
          /\ delayed' = delayed
          /\ registered' = registered
          /\ discoveryReceiver' = discoveryReceiver]_vars

C30_Witness ==
  /\ last.op = "stopScanning"
  /\ "cancelDiscovery" \in Range(last.log)
  /\ IsConnected(bluetoothSocket, sockets)
  /\ registered # {}

\* ------------------------------------------------------------- C31..C39
\* C31 (as stated): the promise of every startScanning call that took the
\* cancel-then-delay path is eventually settled, whatever happens before its
\* delayed start runs, and a settled promise stays settled; the promise of a
\* connectDevice call blocked in connect() is eventually settled.
C31_SettledOnceEventually ==
  /\ [][\A p \in PromiseIds : promises[p] = "settled" => promises'[p] = "settled"]_vars
  /\ \A p \in PromiseIds : (promises[p] = "pending") ~> (promises[p] = "settled")
  /\ (lastConn.result = "pending") ~> (lastConn.result # "pending")

\* C32 (as stated): in the step that follows a stopScanning that returned
\* true, unless that step is a startScanning call, the bridge registers no
\* receiver and starts no platform discovery.
C32_NoStartAfterStop ==
  [][(last.op = "stopScanning" /\ last.result = "true" /\ last'.op # "startScanning") =>
       /\ "registerReceiver" \notin Range(last'.log)
       /\ "startDiscovery:true" \notin Range(last'.log)
       /\ platDiscovering' => platDiscovering]_vars

\* C33: a disconnect rejected DISCONNECT_FAILED had a socket in the slot and
\* leaves the slot as it was; the slot goes from a socket to empty only in a
\* disconnect or a teardown whose close() returned; a disconnect that follows
\* a failed one calls close() on the socket again; getConnectedDevice answers
\* from the socket in the slot, and a printRaw that writes writes to it.
C33_FailedDisconnectKeepsSlot ==
  /\ [][(last'.op = "disconnect" /\ last'.result = "DISCONNECT_FAILED" /\ Disconnect) =>
          /\ bluetoothSocket # NoSocket
          /\ bluetoothSocket' = bluetoothSocket]_vars
  /\ [][(bluetoothSocket # NoSocket /\ bluetoothSocket' = NoSocket) =>
          /\ last'.op \in {"disconnect", "OnDestroy"}
          /\ last'.log # <<>>
          /\ last'.log[Len(last'.log)] = "close"]_vars
  /\ [][(/\ last.op = "disconnect"
         /\ last.result = "DISCONNECT_FAILED"
         /\ last'.op = "disconnect"
         /\ Disconnect) =>
          last'.log \in {<<"close">>, <<"close:throws">>}]_vars
  /\ [](last.op = "getConnectedDevice" => last.found = CurrentDevice)
  /\ []((last.op = "printRaw" /\ "write" \in Range(last.log)) =>
          /\ IsConnected(bluetoothSocket, sockets)
          /\ last.dev = sockets[bluetoothSocket].dev)

C33_Witness ==
  /\ last.op = "getConnectedDevice"
  /\ last.found # {}
  /\ lastConn.op = "disconnect"
  /\ lastConn.result = "DISCONNECT_FAILED"

\* C34 (as stated): once OnDestroy has run, no delayed start is posted, no
\* receiver is registered, the receiver reference is cleared and the
\* connection slot is empty.
C34_TeardownReleases ==
  destroyed =>
    /\ delayed = <<>>
    /\ registered = {}
    /\ discoveryReceiver = NoReceiver
    /\ bluetoothSocket = NoSocket

\* C35 (as stated): when no operation of the facade is in flight, the facade's
\* connectedDevice is non-null exactly when the bridge's getConnectedDevice
\* is, and then has the same id.
C35_FacadeAgrees ==
  ops = <<>> => {r.id : r \in connectedDevice} = {r.id : r \in CurrentDevice}

\* C36 (as stated): when the facade's isScanning is true and no start of the
\* bridge is still to run, the bridge has started discovery and has not
\* handled its end.
C36_ScanningMeansDiscovering ==
  (mounted /\ isScanning /\ dispatched = 0 /\ delayed = <<>>) => isDiscovering

\* C37 (as stated): the facade's isLoading is true exactly when an operation
\* of the facade is in flight.
C37_LoadingWhileInFlight == isLoading <=> ops # <<>>

\* C38 (as stated): at most one listener the facade created is subscribed,
\* it is the one the ref holds, and after the facade's stopScanning or the
\* unmount none is subscribed.
C38_OneSubscription ==
  /\ Cardinality(listeners \cap FacadeListeners) <= 1
  /\ \A l \in listeners \cap FacadeListeners : l = scanningSubscriptionRef
  /\ last.op \in {"facade.stopScanning", "unmount"} => listeners \cap FacadeListeners = {}

\* C39 (as stated): when the facade's requestEnableBluetooth completes with
\* isEnabled true, the adapter is enabled.
C39_EnabledReflectsAdapter ==
  [][(last'.op = "facade.requestEnableBluetooth" /\ RequestEnableResume) =>
       (isEnabled' = "true" => adapterPresent /\ adapterEnabled)]_vars
====
